---------------------------- MODULE Spec2Model ----------------------------
(***************************************************************************)
(* A model of the viewport controller of plugin-proj4leaflet:              *)
(* the class LeafletWithCrs (src/src/Models/LeafeltWithCrs.ts) that adapts *)
(* a Leaflet map to a proj4 CRS, with the helpers it uses                  *)
(* (parseBounds, buildProjCrs, toLatLngBounds, getCurrentNativeBounds).    *)
(*                                                                         *)
(* Numbers.  A JavaScript number is a record [k, v]: k = "fin" with the    *)
(* integer v, or one of "inf", "ninf", "nan", "undef" (v = 0).  All         *)
(* coordinates the model draws are integers chosen so that every division  *)
(* the code performs on them is exact.  Zoom levels are carried snapped to *)
(* whole levels (the viewer's zoomSnap), so a zoom derived from a scale s  *)
(* is floor/round of log2(s), computed on the rational s.                  *)
(*                                                                         *)
(* Projection.  proj4's forward and inverse transforms are a library: a    *)
(* geographic point is modelled as the tagged image [of, valid] of a       *)
(* native point; valid = FALSE marks a geographic point outside the        *)
(* projection's domain, on which the forward transform throws.             *)
(***************************************************************************)
EXTENDS Integers, Sequences, FiniteSets, TLC

(***************************************************************************)
(* Bounds of the model.                                                    *)
(***************************************************************************)
\* number of layer-add / layer-remove events explored per run
MaxEvents == 3

(***************************************************************************)
(* Optional values (undefined | value).                                    *)
(***************************************************************************)
None == <<>>
Some(x) == <<x>>
IsSome(o) == o /= <<>>
The(o) == o[1]

(***************************************************************************)
(* JavaScript numbers.                                                     *)
(***************************************************************************)
Fin(n) == [k |-> "fin", v |-> n]
Inf == [k |-> "inf", v |-> 0]
NegInf == [k |-> "ninf", v |-> 0]
NaN == [k |-> "nan", v |-> 0]
Undef == [k |-> "undef", v |-> 0]

\* isFinite(z) of JavaScript (LeafeltWithCrs.ts:437); isFinite(undefined) is false
IsFinite(z) == z.k = "fin"

\* a < b of JavaScript: false whenever a side is NaN or undefined
NumLess(a, b) ==
    CASE a.k = "fin" /\ b.k = "fin" -> a.v < b.v
      [] a.k = "fin" /\ b.k = "inf" -> TRUE
      [] a.k = "ninf" /\ b.k \in {"fin", "inf"} -> TRUE
      [] OTHER -> FALSE

\* Math.max(a, b) on the values the model meets (no NaN operand reaches it)
NumMax(a, b) == IF NumLess(a, b) THEN b ELSE a

Min2(a, b) == IF a <= b THEN a ELSE b
Max2(a, b) == IF a >= b THEN a ELSE b
Abs(a) == IF a < 0 THEN -a ELSE a

RECURSIVE Pow2(_)
Pow2(n) == IF n <= 0 THEN 1 ELSE 2 * Pow2(n - 1)

\* floor(log2(n / d)) for integers n > 0, d > 0
RECURSIVE FloorLog2(_, _)
FloorLog2(n, d) ==
    IF n >= d
    THEN IF n < 2 * d THEN 0 ELSE 1 + FloorLog2(n, 2 * d)
    ELSE FloorLog2(2 * n, d) - 1

\* Fractions: a JavaScript number that need not be whole is the record
\* [n, d] with d > 0, in lowest terms.
RECURSIVE GCD(_, _)
GCD(a, b) == IF b = 0 THEN Abs(a) ELSE GCD(b, a % b)

Rat(n, d) ==
    LET g == GCD(Abs(n), Abs(d))
        sgn == IF d < 0 THEN -1 ELSE 1
    IN [n |-> sgn * (n \div g), d |-> sgn * (d \div g)]

Whole(n) == [n |-> n, d |-> 1]

\* a * b, reduced across before multiplying
RatMul(a, b) ==
    LET g1 == GCD(Abs(a.n), b.d)
        g2 == GCD(Abs(b.n), a.d)
    IN [n |-> (a.n \div g1) * (b.n \div g2), d |-> (a.d \div g2) * (b.d \div g1)]

\* a / b, b /= 0
RatDiv(a, b) == RatMul(a, Rat(b.d, b.n))

RatAdd(a, b) ==
    LET g == GCD(a.d, b.d)
    IN Rat(a.n * (b.d \div g) + b.n * (a.d \div g), (a.d \div g) * b.d)

RatSub(a, b) == RatAdd(a, [n |-> -b.n, d |-> b.d])

RatLeq(a, b) == RatSub(a, b).n <= 0

\* Math.floor
RatFloor(a) == a.n \div a.d

(***************************************************************************)
(* Points and bounds (L.Point, L.Bounds).                                  *)
(***************************************************************************)
Pt(x, y) == [x |-> x, y |-> y]

\* L.bounds(a, b): the smallest box holding both points
LBounds(a, b) ==
    [min |-> Pt(Min2(a.x, b.x), Min2(a.y, b.y)),
     max |-> Pt(Max2(a.x, b.x), Max2(a.y, b.y))]

\* L.Bounds accessors.  Leaflet names the corners for pixel space (y grows
\* downwards): getTopLeft is min, getBottomRight is max.
GetTopLeft(b) == b.min
GetBottomRight(b) == b.max
GetBottomLeft(b) == Pt(b.min.x, b.max.y)
GetTopRight(b) == Pt(b.max.x, b.min.y)
GetSize(b) == Pt(b.max.x - b.min.x, b.max.y - b.min.y)
GetCenter(b) == Pt((b.min.x + b.max.x) \div 2, (b.min.y + b.max.y) \div 2)

\* L.Bounds.contains(otherBounds)
Contains(b, o) ==
    /\ o.min.x >= b.min.x /\ o.max.x <= b.max.x
    /\ o.min.y >= b.min.y /\ o.max.y <= b.max.y

\* L.Bounds.extend(otherBounds)
Extend(b, o) ==
    [min |-> Pt(Min2(b.min.x, o.min.x), Min2(b.min.y, o.min.y)),
     max |-> Pt(Max2(b.max.x, o.max.x), Max2(b.max.y, o.max.y))]

(***************************************************************************)
(* Geographic points: crs.unproject / crs.project (proj4).                 *)
(***************************************************************************)
Unproject(p) == [of |-> p, valid |-> TRUE]
Project(ll) == ll.of
\* the forward transform raises a domain error on this point
Throws(ll) == ~ll.valid


(***************************************************************************)
(* CRS registry (Crs.ts) and ProjectedCrs construction (buildProjCrs).     *)
(***************************************************************************)
\* standardTerriaCrs: the codes the host handles itself
standardTerriaCrs == {"EPSG:3857", "EPSG:900913", "EPSG:4326", "CRS:84"}

isCrsHandledByTerria(code) == code \in standardTerriaCrs

\* a bounding-box record {crs, min?: {x?, y?}, max?: {x?, y?}}
Box(code, min, max) == [crs |-> code, min |-> min, max |-> max]
Corner(x, y) == Some([x |-> Some(x), y |-> Some(y)])

\* (for comparison) parseBounds reading a missing coordinate as 0
parseBoundsDefaultingToZero(b) ==
    IF ~IsSome(b) THEN None
    ELSE IF ~IsSome(The(b).min) \/ ~IsSome(The(b).max) THEN None
    ELSE LET mn == The(The(b).min)
             mx == The(The(b).max)
             val(o) == IF IsSome(o) THEN The(o) ELSE 0
         IN Some(LBounds(Pt(val(mn.x), val(mn.y)), Pt(val(mx.x), val(mx.y))))

\* parseBounds: absent unless min, max and the four coordinates are all there
parseBounds(b) ==
    IF ~IsSome(b) THEN None
    ELSE IF ~IsSome(The(b).min) \/ ~IsSome(The(b).max) THEN None
    ELSE LET mn == The(The(b).min)
             mx == The(The(b).max)
         IN IF ~IsSome(mn.x) \/ ~IsSome(mn.y) \/ ~IsSome(mx.x) \/ ~IsSome(mx.y)
            THEN None
            ELSE Some(LBounds(Pt(The(mn.x), The(mn.y)), Pt(The(mx.x), The(mx.y))))

\* proj4.defs after proj4.defs(extraProj4Definitions): the codes proj4 knows
KnownCrs ==
    {"EPSG:3857", "EPSG:900913", "EPSG:4326", "EPSG:3031", "EPSG:3413", "EPSG:32633"}

isKnownCrs(code) == code \in KnownCrs

\* a CRS definition {crs, proj4Definition?, projectedBounds?, resolutions?};
\* a proj4Definition is "ok" (a string proj4 can parse), "malformed" or ""
Definition(code, proj4Definition, projectedBounds, resolutions) ==
    [crs |-> code, proj4Definition |-> proj4Definition,
     projectedBounds |-> projectedBounds, resolutions |-> resolutions]

\* a CRS configured without projectedBounds
UnboundedCode == "EPSG:3413"

\* defaultCrsDefinitions.ts
defaultCrsDefinitions ==
    {Definition("EPSG:3857", None, None, None),
     Definition("EPSG:3031", None,
                Some(Box("EPSG:3031", Corner(-4194304, -4194304),
                                      Corner(4194304, 4194304))), None)}

\* this.crsDefinitions: the defaults and those of the plugin configuration,
\* here a CRS without projectedBounds and one with a malformed proj4Definition
crsDefinitions ==
    defaultCrsDefinitions
    \cup {Definition(UnboundedCode, None, None, None),
          Definition("EPSG:32633", Some("malformed"), None, None)}

\* this.crsDefinitions.find((def) => def.crs === code)
FindDefinition(code) ==
    IF \E d \in crsDefinitions : d.crs = code
    THEN Some(CHOOSE d \in crsDefinitions : d.crs = code)
    ELSE None

\* new L.Proj.CRS(code, proj4Definition ?? "", ...) throws: with a definition
\* string, when proj4 cannot build a projection from it; without one, when
\* proj4 has no definition for the code
ProjConstructionFails(code, proj4Definition) ==
    IF IsSome(proj4Definition) /\ The(proj4Definition) /= ""
    THEN The(proj4Definition) = "malformed"
    ELSE ~isKnownCrs(code)

\* (for comparison) buildProjCrs without the test for natively handled codes
buildProjCrsForAnyCode(code, def) ==
    LET options == IF IsSome(def) THEN The(def) ELSE Definition(code, None, None, None)
        bounds == parseBounds(options.projectedBounds)
    IN IF ProjConstructionFails(code, options.proj4Definition) THEN None
       ELSE Some([code |-> code, bounds |-> bounds,
                  origin |-> IF IsSome(bounds)
                             THEN Pt(The(bounds).min.x, The(bounds).max.y)
                             ELSE Pt(0, 0),
                  resZoom0 |-> IF IsSome(bounds)
                               THEN Max2(GetSize(The(bounds)).x, GetSize(The(bounds)).y) \div 256
                               ELSE 256,
                  infinite |-> ~IsSome(bounds),
                  resolutions |-> options.resolutions])

\* (for comparison) buildProjCrs returning a CRS whatever proj4 makes of it
buildProjCrsUnguarded(code, def) ==
    IF isCrsHandledByTerria(code) THEN None
    ELSE LET options == IF IsSome(def) THEN The(def) ELSE Definition(code, None, None, None)
             bounds == parseBounds(options.projectedBounds)
         IN Some([code |-> code, bounds |-> bounds,
                  origin |-> IF IsSome(bounds)
                             THEN Pt(The(bounds).min.x, The(bounds).max.y)
                             ELSE Pt(0, 0),
                  resZoom0 |-> IF IsSome(bounds)
                               THEN Max2(GetSize(The(bounds)).x, GetSize(The(bounds)).y) \div 256
                               ELSE 256,
                  infinite |-> ~IsSome(bounds),
                  resolutions |-> options.resolutions])

\* buildProjCrs(crs, options?): none for a native code and when the
\* construction of L.Proj.CRS throws (caught and logged); else an L.Proj.CRS
\* with bounds, origin (bounds.min.x, bounds.max.y), L.Proj.CRS's
\* infinite = !bounds, the resolutions array handed over, and, for scale and
\* zoom without a resolutions array, the resolution at zoom 0.
buildProjCrs(code, def) ==
    IF isCrsHandledByTerria(code) THEN None
    ELSE LET options == IF IsSome(def) THEN The(def) ELSE Definition(code, None, None, None)
             bounds == parseBounds(options.projectedBounds)
             size == GetSize(The(bounds))
         IN IF ProjConstructionFails(code, options.proj4Definition) THEN None
            ELSE Some([code |-> code,
                       bounds |-> bounds,
                       origin |-> IF IsSome(bounds)
                                  THEN Pt(The(bounds).min.x, The(bounds).max.y)
                                  ELSE Pt(0, 0),
                       resZoom0 |-> IF IsSome(bounds)
                                    THEN Max2(size.x, size.y) \div 256
                                    ELSE 256,
                       infinite |-> ~IsSome(bounds),
                       resolutions |-> options.resolutions])

\* the controllers the loader can build: one per custom CRS of crsDefinitions
\* that buildProjCrs accepts
ProjCrs ==
    {The(buildProjCrs(d.crs, Some(d))) :
        d \in {e \in crsDefinitions : IsSome(buildProjCrs(e.crs, Some(e)))}}

(***************************************************************************)
(* The scale and zoom functions of a ProjectedCrs.  A zoom that need not   *)
(* be a whole level is carried as the record [exp2] holding the fraction   *)
(* 2^zoom, so that Math.pow(2, zoom) and Math.log2 are computed on         *)
(* fractions; the whole level z is Level(z).                               *)
(***************************************************************************)
Level(z) == [exp2 |-> IF z >= 0 THEN Whole(Pow2(z)) ELSE Rat(1, Pow2(-z))]

\* a zoom that is a whole level, and the level
IsLevel(zoom) ==
    \/ zoom.exp2.d = 1 /\ Pow2(FloorLog2(zoom.exp2.n, 1)) = zoom.exp2.n
    \/ zoom.exp2.n = 1 /\ Pow2(FloorLog2(zoom.exp2.d, 1)) = zoom.exp2.d

LevelOf(zoom) == FloorLog2(zoom.exp2.n, zoom.exp2.d)

\* resZoom0 of buildProjCrs as a fraction
ResZoom0(c) == Whole(c.resZoom0)

\* L.Proj.CRS's _scales: 1 / resolutions[i] for each resolution given
Scales(c) == [i \in DOMAIN The(c.resolutions) |-> Rat(1, The(c.resolutions)[i])]

\* (for comparison) a scale that falls back to the tile edge whatever the bounds
crsScaleFromTileEdge(c, zoom) ==
    IF IsSome(c.resolutions)
    THEN IF LevelOf(zoom) + 1 \in DOMAIN Scales(c)
         THEN Some(Scales(c)[LevelOf(zoom) + 1]) ELSE None
    ELSE Some(RatDiv(zoom.exp2, Whole(256)))

\* (for comparison) buildProjCrs installing its scale over the resolutions
crsScaleAlwaysInstalled(c, zoom) ==
    Some(RatDiv(Whole(1), RatDiv(ResZoom0(c), zoom.exp2)))

\* crs.scale(zoom): with a resolutions array, L.Proj.CRS's scale, which at a
\* whole level is _scales[zoom] (undefined beyond the array); without one, the
\* function buildProjCrs installs, 1 / (resZoom0 / Math.pow(2, zoom))
crsScale(c, zoom) ==
    IF IsSome(c.resolutions)
    THEN IF LevelOf(zoom) + 1 \in DOMAIN Scales(c)
         THEN Some(Scales(c)[LevelOf(zoom) + 1]) ELSE None
    ELSE Some(RatDiv(Whole(1), RatDiv(ResZoom0(c), zoom.exp2)))

\* (for comparison) a zoom that falls back to the tile edge whatever the bounds
crsZoomFromTileEdge(c, s) ==
    IF IsSome(c.resolutions)
    THEN IF \E i \in DOMAIN Scales(c) : Scales(c)[i] = s
         THEN Some(Level((CHOOSE i \in DOMAIN Scales(c) : Scales(c)[i] = s) - 1))
         ELSE None
    ELSE Some([exp2 |-> RatMul(s, Whole(256))])

\* crs.zoom(scale): with a resolutions array, L.Proj.CRS's zoom, which is the
\* index of a scale found in _scales; without one, the function buildProjCrs
\* installs, Math.log2(scale * resZoom0)
crsZoom(c, s) ==
    IF IsSome(c.resolutions)
    THEN IF \E i \in DOMAIN Scales(c) : Scales(c)[i] = s
         THEN Some(Level((CHOOSE i \in DOMAIN Scales(c) : Scales(c)[i] = s) - 1))
         ELSE None
    ELSE Some([exp2 |-> RatMul(s, ResZoom0(c))])

(***************************************************************************)
(* CustomCrsTilingScheme (CustomCrsTilingScheme.ts).  A scheme is the      *)
(* record [crs, tileWidth, tileHeight]; pixel and tile coordinates are     *)
(* points of fractions.                                                    *)
(***************************************************************************)
\* L.Point.scaleBy / unscaleBy / add / subtract on points of fractions
ScaleBy(p, q) == Pt(RatMul(p.x, q.x), RatMul(p.y, q.y))
UnscaleBy(p, q) == Pt(RatDiv(p.x, q.x), RatDiv(p.y, q.y))
PtAdd(p, q) == Pt(RatAdd(p.x, q.x), RatAdd(p.y, q.y))
PtSubtract(p, q) == Pt(RatSub(p.x, q.x), RatSub(p.y, q.y))

RatMin(a, b) == IF RatLeq(a, b) THEN a ELSE b
RatMax(a, b) == IF RatLeq(a, b) THEN b ELSE a

\* L.bounds(a, b) on points of fractions
RBounds(a, b) ==
    [min |-> Pt(RatMin(a.x, b.x), RatMin(a.y, b.y)),
     max |-> Pt(RatMax(a.x, b.x), RatMax(a.y, b.y))]

\* this.tileSize
TileSize(t) == Pt(Whole(t.tileWidth), Whole(t.tileHeight))

\* a point with whole coordinates as a point of fractions
WholePt(p) == Pt(Whole(p.x), Whole(p.y))

\* crs.transformation.transform(p, s) of a native point of fractions: the
\* transformation is (1, -origin.x, -1, origin.y)
TransformBy(c, p, s) ==
    Pt(RatMul(s, RatSub(p.x, Whole(c.origin.x))),
       RatMul(s, RatSub(Whole(c.origin.y), p.y)))

\* crs.transformation.untransform(px, s): a native point of fractions
UntransformBy(c, px, s) ==
    Pt(RatAdd(RatDiv(px.x, s), Whole(c.origin.x)),
       RatSub(Whole(c.origin.y), RatDiv(px.y, s)))

\* L.CRS.getProjectedBounds(zoom): null for an infinite CRS, else the native
\* bounds transformed at the scale of the zoom (NaN where the scale of the
\* zoom is undefined)
getProjectedBounds(c, level) ==
    IF c.infinite THEN None
    ELSE LET s == crsScale(c, Level(level))
             b == The(c.bounds)
         IN IF IsSome(s)
            THEN Some(RBounds(TransformBy(c, WholePt(b.min), The(s)),
                               TransformBy(c, WholePt(b.max), The(s))))
            ELSE Some([min |-> Pt(NaN, NaN), max |-> Pt(NaN, NaN)])

\* (for comparison) a tile count rounded up to whole tiles
getNumberOfTilesAtLevelWhole(t, level) ==
    LET bounds == getProjectedBounds(t.crs, level)
    IN IF ~IsSome(bounds) THEN Pt(Inf, Inf)
       ELSE IF The(bounds).min.x = NaN THEN Pt(NaN, NaN)
       ELSE LET tileCount == PtSubtract(UnscaleBy(The(bounds).max, TileSize(t)),
                                        UnscaleBy(The(bounds).min, TileSize(t)))
            IN Pt(Whole(-RatFloor([n |-> -tileCount.x.n, d |-> tileCount.x.d])),
                  Whole(-RatFloor([n |-> -tileCount.y.n, d |-> tileCount.y.d])))

\* getNumberOfTilesAtLevel(level)
getNumberOfTilesAtLevel(t, level) ==
    LET bounds == getProjectedBounds(t.crs, level)
    IN IF ~IsSome(bounds) THEN Pt(Inf, Inf)
       ELSE IF The(bounds).min.x = NaN THEN Pt(NaN, NaN)
       ELSE LET tileRangeMin == UnscaleBy(The(bounds).min, TileSize(t))
                tileRangeMax == UnscaleBy(The(bounds).max, TileSize(t))
            IN PtSubtract(tileRangeMax, tileRangeMin)

RECURSIVE Pow10(_)
Pow10(k) == IF k <= 0 THEN 1 ELSE 10 * Pow10(k - 1)

\* Math.round(r / d * 10^k) for 0 <= r < d, by long division; a half rounds up
RECURSIVE RoundDigits(_, _, _)
RoundDigits(r, d, k) ==
    IF k = 0 THEN (IF 2 * r >= d THEN 1 ELSE 0)
    ELSE ((10 * r) \div d) * Pow10(k - 1) + RoundDigits((10 * r) % d, d, k - 1)

\* (for comparison) round8 cutting the digits after the eighth
round8Truncating(value) ==
    LET int == RatFloor(value)
    IN [int |-> int,
        e8 |-> RoundDigits(value.n - int * value.d, 2 * value.d, 8) \div 2]

\* round8(value) = Math.round(value * 100000000) / 100000000, as the record
\* [int, e8] of the whole part (rounded down) and the eight decimals
round8(value) ==
    LET int == RatFloor(value)
        e8 == RoundDigits(value.n - int * value.d, value.d, 8)
    IN IF e8 = Pow10(8) THEN [int |-> int + 1, e8 |-> 0] ELSE [int |-> int, e8 |-> e8]

\* a <= b on numbers of eight decimals
Dec8Leq(a, b) == a.int < b.int \/ (a.int = b.int /\ a.e8 <= b.e8)

\* crs.pointToLatLng(point, zoom): untransform, then projection.unproject
pointToLatLng(c, point, s) == Unproject(UntransformBy(c, point, s))

\* tileXYToNativeRectangle(x, y, level): {west, south, east, north}; NaN where
\* the scale of the level is undefined
tileXYToNativeRectangle(t, x, y, level) ==
    LET nwPixelPoint == ScaleBy(Pt(Whole(x), Whole(y)), TileSize(t))
        sePixelPoint == PtAdd(nwPixelPoint, TileSize(t))
        s == crsScale(t.crs, Level(level))
        nwCrsPoint == Project(pointToLatLng(t.crs, nwPixelPoint, The(s)))
        seCrsPoint == Project(pointToLatLng(t.crs, sePixelPoint, The(s)))
        bounds == RBounds(nwCrsPoint, seCrsPoint)
    IN IF ~IsSome(s) THEN [west |-> NaN, south |-> NaN, east |-> NaN, north |-> NaN]
       ELSE [west |-> round8(bounds.min.x), south |-> round8(bounds.min.y),
             east |-> round8(bounds.max.x), north |-> round8(bounds.max.y)]

(***************************************************************************)
(* Cartographic positions of the tiling scheme (CustomMapProjection).      *)
(* The CRSs of the model are polar stereographic about a pole at the       *)
(* native point (0, 0), as EPSG:3031 is: the longitude of a native point   *)
(* is atan2(x, y) and its latitude a decreasing function of its distance   *)
(* rho from the pole.  A position is the record [lng, rho], lng in units   *)
(* of 22.5 degrees in -7..8; positions are taken of the native points on   *)
(* the axes and the diagonals only, where lng is a whole number of units.  *)
(* The square root of 2 and the sines are carried as fractions cut after   *)
(* one or two digits.                                                      *)
(***************************************************************************)
\* a native point of fractions on an axis or a diagonal, or the pole
OnRay(p) == p.x.n = 0 \/ p.y.n = 0 \/ Abs(p.x.n) * p.y.d = Abs(p.y.n) * p.x.d

RatAbs(a) == [n |-> Abs(a.n), d |-> a.d]

\* projection.unproject(cartesian): the position of a native point; the pole
\* has the central meridian as its longitude
unproject(p) ==
    LET lng == IF p.x.n = 0 THEN (IF p.y.n >= 0 THEN 0 ELSE 8)
               ELSE IF p.y.n = 0 THEN (IF p.x.n > 0 THEN 4 ELSE -4)
               ELSE IF p.x.n > 0 THEN (IF p.y.n > 0 THEN 2 ELSE 6)
               ELSE (IF p.y.n > 0 THEN -2 ELSE -6)
        rho == IF p.x.n = 0 THEN RatAbs(p.y)
               ELSE IF p.y.n = 0 THEN RatAbs(p.x)
               ELSE RatMul(RatAbs(p.x), Rat(7, 5))
    IN [lng |-> lng, rho |-> rho]

\* Math.sin and Math.cos of a longitude
Sin(lng) ==
    LET l == Abs(lng)
        v == IF l \in {0, 8} THEN Whole(0)
             ELSE IF l \in {1, 7} THEN Rat(3, 8)
             ELSE IF l \in {2, 6} THEN Rat(7, 10)
             ELSE IF l \in {3, 5} THEN Rat(9, 10)
             ELSE Whole(1)
    IN IF lng < 0 THEN [n |-> -v.n, d |-> v.d] ELSE v

Cos(lng) == Sin(IF lng + 4 > 8 THEN lng + 4 - 16 ELSE lng + 4)

\* projection.project(cartographic): x = rho sin(lng), y = rho cos(lng)
project(position) ==
    Pt(RatMul(position.rho, Sin(position.lng)), RatMul(position.rho, Cos(position.lng)))

\* the distance from the pole of the parallel midway in latitude between the
\* parallels at distances r1 and r2: that distance itself when they are
\* equal, else below their mean (the distance is convex in the latitude),
\* carried as 9/10 of it
MidLatitude(r1, r2) ==
    IF r1 = r2 THEN r1 ELSE RatMul(Rat(9, 20), RatAdd(r1, r2))

\* Rectangle.center(rectangle): the mean of west and east, east taken a turn
\* further when it is less than west and the mean brought back to
\* (-180, 180], and the mean of south and north
RectangleCenter(rectangle) ==
    LET east == IF rectangle.east < rectangle.west
                THEN rectangle.east + 16 ELSE rectangle.east
        longitude == (rectangle.west + east) \div 2
    IN [lng |-> IF longitude > 8 THEN longitude - 16 ELSE longitude,
        rho |-> MidLatitude(rectangle.south, rectangle.north)]

\* a number of eight decimals as a fraction
Dec8(v) == RatAdd(Whole(v.int), Rat(v.e8, Pow10(8)))

\* tileXYToRectangle(x, y, level): the positions of the south-west and
\* north-east corners of the native rectangle; south and north are held by
\* the distances from the pole of their parallels
tileXYToRectangle(t, x, y, level) ==
    LET nativeRectangle == tileXYToNativeRectangle(t, x, y, level)
        southwest == unproject(Pt(Dec8(nativeRectangle.west), Dec8(nativeRectangle.south)))
        northeast == unproject(Pt(Dec8(nativeRectangle.east), Dec8(nativeRectangle.north)))
    IN [west |-> southwest.lng, south |-> southwest.rho,
        east |-> northeast.lng, north |-> northeast.rho]

\* positionToTileXY(position, level)
positionToTileXY(t, position, level) ==
    LET crsCoord == TransformBy(t.crs, project(position),
                                The(crsScale(t.crs, Level(level))))
    IN Pt(RatFloor(RatDiv(crsCoord.x, TileSize(t).x)),
          RatFloor(RatDiv(crsCoord.y, TileSize(t).y)))

\* a pixel length divided by crs.scale(z) = 2^z / resZoom0: the native length
Unscale(c, len, z) ==
    IF z >= 0 THEN (len * c.resZoom0) \div Pow2(z)
    ELSE len * c.resZoom0 * Pow2(-z)

\* Math.round(n / d), d > 0
RoundDiv(n, d) == (2 * n + d) \div (2 * d)

\* a native length times crs.scale(z), rounded to whole pixels
ScaleRound(c, len, z) ==
    IF z >= 0 THEN RoundDiv(len * Pow2(z), c.resZoom0)
    ELSE RoundDiv(len, c.resZoom0 * Pow2(-z))

\* crs.transformation.transform(p, crs.scale(z)), rounded as Leaflet rounds the
\* pixel origin; the transformation is (1, -origin.x, -1, origin.y)
Transform(c, p, z) ==
    Pt(ScaleRound(c, p.x - c.origin.x, z), ScaleRound(c, c.origin.y - p.y, z))

\* crs.transformation.untransform(px, crs.scale(z))
Untransform(c, px, z) ==
    Pt(Unscale(c, px.x, z) + c.origin.x, c.origin.y - Unscale(c, px.y, z))


(***************************************************************************)
(* The catalog: items with their CRS and bounding boxes.                   *)
(***************************************************************************)
\* the items the viewer renders (availableCatalogItems), in order
ItemIds == <<"a", "c">>

\* boundingBoxes of an item for the map CRS `code`: a is a wide box, c a
\* point dataset outside it, p (an item a preview viewer previews) a small
\* box, q (another previewed item) a box whose max lacks its y
boundingBoxes(i, code) ==
    CASE i = "a" -> <<Box("EPSG:3857", Corner(0, 0), Corner(1, 1)),
                      Box(code, Corner(0, 0), Corner(131072, 65536))>>
      [] i = "c" -> <<Box(code, Corner(-4096, -4096), Corner(-4096, -4096))>>
      [] i = "p" -> <<Box(code, Corner(-2048, -2048), Corner(2048, 2048))>>
      [] i = "q" -> <<Box(code, Corner(-2048, -2048),
                          Some([x |-> Some(2048), y |-> None]))>>

\* boxes.find((box) => box.crs === code)
RECURSIVE FindBox(_, _)
FindBox(boxes, code) ==
    IF boxes = <<>> THEN None
    ELSE IF Head(boxes).crs = code THEN Some(Head(boxes))
    ELSE FindBox(Tail(boxes), code)

\* getItemBounds of itemBounds
getItemBounds(i, code) == parseBounds(FindBox(boundingBoxes(i, code), code))

\* item.crs: a follows the map CRS, c is served in the unbounded CRS only
itemCrs(i, code) == IF i = "c" THEN UnboundedCode ELSE code

\* the loop of itemBounds over availableCatalogItems
RECURSIVE CombineBounds(_, _, _, _)
CombineBounds(items, shown, code, combined) ==
    IF items = <<>> THEN combined
    ELSE LET i == Head(items)
             b == getItemBounds(i, code)
             next == IF ~shown[i] \/ itemCrs(i, code) /= code \/ ~IsSome(b)
                     THEN combined
                     ELSE IF IsSome(combined)
                          THEN Some(Extend(The(combined), The(b)))
                          ELSE b
         IN CombineBounds(Tail(items), shown, code, next)

\* itemBounds: the previewed item's box (preview viewer) and the boxes of the
\* shown items whose CRS is the map CRS
itemBounds(c, previewedItem, shown) ==
    CombineBounds(ItemIds, shown, c.code,
                  IF IsSome(previewedItem)
                  THEN getItemBounds(The(previewedItem), c.code)
                  ELSE None)

(***************************************************************************)
(* The Leaflet map (library), as far as the controller reads and writes    *)
(* it.  A map is the record                                                *)
(*   [maxBounds, minZoom, center, zoom, layers, nSetMaxBounds, nSetMinZoom]*)
(* center is kept in native coordinates; nSetMaxBounds and nSetMinZoom     *)
(* count the calls of map.setMaxBounds and map.setMinZoom.                 *)
(***************************************************************************)
\* map.getSize(): a square container
MapSize == Pt(256, 256)

\* tile layers: slots of the map's layer table
MaxLayers == 2
LayerIds == 1..MaxLayers
NoLayer == [st |-> "none", minZoom |-> Undef, minNativeZoom |-> Undef]

\* the map the base constructor leaves: view set (the map is loaded), no
\* max bounds, options.minZoom undefined, no layers
BaseMap ==
    [maxBounds |-> None, minZoom |-> Undef,
     center |-> Pt(5242880, -5242880), zoom |-> Fin(5),
     layers |-> [l \in LayerIds |-> NoLayer],
     nSetMaxBounds |-> 0, nSetMinZoom |-> 0]

\* map.getMinZoom(): options.minZoom, else the layers' minimum or 0
GetMinZoom(m) == IF m.minZoom.k = "undef" THEN Fin(0) ELSE m.minZoom

\* map.setMinZoom(z) on a loaded map: stores it and zooms in when below it
LSetMinZoom(m, z) ==
    [m EXCEPT !.minZoom = z,
              !.nSetMinZoom = @ + 1,
              !.zoom = IF NumLess(m.zoom, z) THEN z ELSE @]

\* map.setMaxBounds(latLngBounds): stores valid bounds, clears otherwise
LSetMaxBounds(m, llb) ==
    [m EXCEPT !.maxBounds = llb, !.nSetMaxBounds = @ + 1]

\* map.getBoundsZoom(bounds): the largest whole zoom at which the native box
\* fits the container, not below getMinZoom(); infinite for a box of size 0
\* and whenever the current zoom is not finite
GetBoundsZoom(c, m, nb) ==
    LET size == GetSize(nb)
        side == Max2(size.x, size.y)
    IN IF ~IsFinite(m.zoom) \/ side = 0 THEN Inf
       ELSE NumMax(GetMinZoom(m), Fin(FloorLog2(MapSize.x * c.resZoom0, side)))

\* the native box of a L.LatLngBounds
NativeOf(llb) == LBounds(Project(llb.sw), Project(llb.ne))

\* map.fitBounds(latLngBounds, {animate: false}): setView on the box's center
\* at getBoundsZoom
LFitBounds(c, m, llb) ==
    [m EXCEPT !.center = GetCenter(NativeOf(llb)),
              !.zoom = GetBoundsZoom(c, m, NativeOf(llb))]

(***************************************************************************)
(* toLatLngBounds and getCurrentNativeBounds (LeafeltWithCrs.ts).          *)
(***************************************************************************)
toLatLngBounds(bounds, c) ==
    IF IsSome(bounds)
    THEN Some([sw |-> Unproject(The(bounds).min), ne |-> Unproject(The(bounds).max)])
    ELSE None

\* map.getPixelBounds(): the container around the center's pixel
GetPixelBounds(c, m) ==
    LET cp == Transform(c, m.center, m.zoom.v)
        half == Pt(MapSize.x \div 2, MapSize.y \div 2)
    IN LBounds(Pt(cp.x - half.x, cp.y - half.y), Pt(cp.x + half.x, cp.y + half.y))

\* getCurrentNativeBounds: [k |-> "ok", b |-> bounds]; at a zoom that is not
\* finite the scale is infinite and every coordinate is NaN (k = "nan")
getCurrentNativeBounds(c, m) ==
    IF ~IsFinite(m.zoom)
    THEN [k |-> "nan", b |-> LBounds(Pt(0, 0), Pt(0, 0))]
    ELSE LET pixelBounds == GetPixelBounds(c, m)
             sw == Untransform(c, GetBottomLeft(pixelBounds), m.zoom.v)
             ne == Untransform(c, GetTopRight(pixelBounds), m.zoom.v)
         IN [k |-> "ok", b |-> LBounds(sw, ne)]


(***************************************************************************)
(* LeafletWithCrs: max bounds and min zoom.                                *)
(***************************************************************************)
\* setMaxBounds(newBounds, crs)
\* (for comparison) setMaxBounds fitting the view whenever bounds are given
setMaxBoundsAlwaysFitting(c, m, newBounds) ==
    IF ~IsSome(newBounds) THEN LSetMaxBounds(m, None)
    ELSE LFitBounds(c, LSetMaxBounds(m, toLatLngBounds(newBounds, c)),
                    The(toLatLngBounds(newBounds, c)))

setMaxBounds(c, m, newBounds) ==
    IF ~IsSome(newBounds) THEN LSetMaxBounds(m, None)
    ELSE LET latLngBounds == toLatLngBounds(newBounds, c)
             m1 == LSetMaxBounds(m, latLngBounds)
             currentBounds == getCurrentNativeBounds(c, m1)
         IN IF currentBounds.k /= "ok" \/ ~Contains(The(newBounds), currentBounds.b)
            THEN LFitBounds(c, m1, The(latLngBounds))
            ELSE m1

\* (for comparison) a min zoom rounded up instead of down
MinZoomFromBoundsCeil(c, bounds) ==
    IF ~IsSome(bounds) THEN Fin(0)
    ELSE LET size == GetSize(The(bounds))
             side == Max2(Abs(size.x), Abs(size.y))
         IN IF side = 0 THEN Inf
            ELSE Fin(-FloorLog2(side, c.resZoom0 * c.resZoom0))

\* the minZoom setMinZoomFromBounds derives: 0 without bounds, else
\* floor(crs.zoom(1 / resolution)) with resolution the larger side of the
\* bounds in pixels at zoom 0; crs.zoom(s) = log2(s * resZoom0)
MinZoomFromBounds(c, bounds) ==
    IF ~IsSome(bounds) THEN Fin(0)
    ELSE LET size == GetSize(The(bounds))
             side == Max2(Abs(size.x), Abs(size.y))
         IN IF side = 0 THEN Inf
            ELSE Fin(FloorLog2(c.resZoom0 * c.resZoom0, side))

\* the eachLayer loop, had it updated only layers it never touched before
UpdateLayerMinZoomOnlyNew(layer, minZoom) ==
    IF layer.st = "on" /\ layer.minNativeZoom.k = "undef"
    THEN [layer EXCEPT !.minZoom = minZoom, !.minNativeZoom = Fin(0)]
    ELSE layer

\* the eachLayer loop of setMinZoomFromBounds on one tile layer of the map
UpdateLayerMinZoom(layer, minZoom) ==
    IF layer.st = "on" /\ (layer.minNativeZoom.k = "undef" \/ layer.minZoom /= minZoom)
    THEN [layer EXCEPT !.minZoom = minZoom,
                       !.minNativeZoom = IF @.k = "undef" THEN Fin(0) ELSE @]
    ELSE layer

\* setMinZoomFromBounds(bounds, crs)
setMinZoomFromBounds(c, m, bounds) ==
    LET minZoom == MinZoomFromBounds(c, bounds)
        m1 == LSetMinZoom(m, minZoom)
    IN [m1 EXCEPT !.layers = [l \in LayerIds |-> UpdateLayerMinZoom(m1.layers[l], minZoom)]]

\* updateMaxBounds, had it left the min zoom alone
updateMaxBoundsWithoutMinZoom(c, m, bounds) ==
    setMaxBounds(c, m, bounds)

\* updateMaxBounds(bounds, crs)
updateMaxBounds(c, m, bounds) ==
    setMaxBounds(c, setMinZoomFromBounds(c, m, bounds), bounds)

\* the events setupMaxBounds listens to for an unbounded CRS
LayerEvents == {"layeradd", "layerremove"}

\* setupMaxBounds, had it listened to layer events for a bounded CRS too
setupMaxBoundsAlwaysListening(c, m, bounds) ==
    IF IsSome(c.bounds)
    THEN [map |-> setMaxBounds(c, m, c.bounds), handlers |-> LayerEvents]
    ELSE [map |-> updateMaxBounds(c, m, bounds), handlers |-> LayerEvents]

\* setupMaxBounds: [map, handlers] after it; the callback of whenReady runs
\* at once, the base constructor having set the view
setupMaxBounds(c, m, bounds) ==
    IF IsSome(c.bounds)
    THEN [map |-> setMaxBounds(c, m, c.bounds), handlers |-> {}]
    ELSE [map |-> updateMaxBounds(c, m, bounds), handlers |-> LayerEvents]

(***************************************************************************)
(* LeafletWithCrs: the patched map.flyTo.                                  *)
(***************************************************************************)
\* Leaflet's own flyTo(latLng, zoom, options): projects the target (and
\* throws outside the projection's domain, before it changes the view), then
\* moves the view there; an undefined zoom keeps the current zoom
OriginalFlyTo(m, latLng, zoom) ==
    [m EXCEPT !.center = Project(latLng),
              !.zoom = IF zoom.k = "undef" THEN @ ELSE NumMax(GetMinZoom(m), zoom)]

\* (for comparison) a patch that lets every duration-driven request animate
FlyToAnimateUnconditional(c, isPreviewViewer, optAnimate) ==
    optAnimate /= "false"

\* the animate option the patch passes on: optAnimate is options?.animate,
\* one of "undef", "true", "false"
FlyToAnimate(c, isPreviewViewer, optAnimate) ==
    IF optAnimate = "false" THEN FALSE
    ELSE IF c.infinite \/ isPreviewViewer THEN FALSE
    ELSE TRUE

\* (for comparison) the patch without its zoom guard
PatchedFlyToUnguarded(c, isPreviewViewer, m, latLng, zoom, optAnimate) ==
    [map |-> IF Throws(latLng) THEN m ELSE OriginalFlyTo(m, latLng, zoom),
     call |-> "flyTo",
     animate |-> FlyToAnimate(c, isPreviewViewer, optAnimate),
     threw |-> FALSE]

\* map.flyTo as patchFlyTo installs it: [map, call, animate, threw]
\* call is "flyTo" when Leaflet's flyTo was invoked
PatchedFlyTo(c, isPreviewViewer, m, latLng, zoom, optAnimate) ==
    IF zoom.k /= "undef" /\ ~IsFinite(zoom)
    THEN [map |-> m, call |-> "none", animate |-> FALSE, threw |-> FALSE]
    ELSE [map |-> IF Throws(latLng) THEN m ELSE OriginalFlyTo(m, latLng, zoom),
          call |-> "flyTo",
          animate |-> FlyToAnimate(c, isPreviewViewer, optAnimate),
          threw |-> FALSE]


(***************************************************************************)
(* LeafletWithCrs: doZoomTo.                                               *)
(***************************************************************************)
\* the outcome of an operation on the viewer:
\*   map      the map after it
\*   call     what reached the underlying viewer: "flyTo" (Leaflet's flyTo),
\*            "super" (the base class's implementation) or "none"
\*   via      the branch taken
\*   animate  the animate option Leaflet's flyTo received
\*   zoom     the zoom handed to the patched flyTo
\*   threw    an error propagated to the caller
Outcome(m, call, via, animate, zoom, threw) ==
    [map |-> m, call |-> call, via |-> via, animate |-> animate,
     zoom |-> zoom, threw |-> threw]

\* map.flyToBounds(bounds, options) of Leaflet: this.flyTo on the center and
\* zoom of _getBoundsCenterZoom; flyTo is the patched one
FlyToBounds(c, isPreviewViewer, m, llb, optAnimate) ==
    PatchedFlyTo(c, isPreviewViewer, m,
                 Unproject(GetCenter(NativeOf(llb))),
                 GetBoundsZoom(c, m, NativeOf(llb)), optAnimate)

\* L.bounds(latLngs.map(project)): the native box of a sequence of points
RECURSIVE BoundsOfPoints(_, _)
BoundsOfPoints(lls, acc) ==
    IF lls = <<>> THEN acc
    ELSE BoundsOfPoints(Tail(lls), Extend(acc, LBounds(Project(Head(lls)), Project(Head(lls)))))

NativeBoundsOf(lls) ==
    BoundsOfPoints(Tail(lls), LBounds(Project(Head(lls)), Project(Head(lls))))

\* (for comparison) a fit zoom capped at a largest zoom level
ExtentZoomCapped(c, m, nb) ==
    LET size == GetSize(nb)
        side == Max2(size.x, size.y)
    IN IF ~IsFinite(m.zoom) \/ side = 0 THEN Fin(18)
       ELSE Fin(FloorLog2(MapSize.x * c.resZoom0, side))

\* map.getScaleZoom(scale, map.getZoom()) for the fit scale of doZoomTo,
\* scale = min(mapSize.x / boundsSize.x, mapSize.y / boundsSize.y) with the
\* box measured in pixels at the current zoom: log2(mapSize * resZoom0 / side)
\* for the larger native side; infinite for a box of size 0 (the scale is
\* infinite) and when the current zoom is not finite (the zoom is NaN, which
\* getScaleZoom turns into Infinity)
ExtentZoom(c, m, nb) ==
    LET size == GetSize(nb)
        side == Max2(size.x, size.y)
    IN IF ~IsFinite(m.zoom) \/ side = 0 THEN Inf
       ELSE Fin(FloorLog2(MapSize.x * c.resZoom0, side))

\* "animate: flightDurationSeconds > 0.0" as an animate option
AnimateOption(flightDurationSeconds) ==
    IF flightDurationSeconds > 0 THEN "true" ELSE "false"

\* the first branch of doZoomTo: this.map.flyToBounds(this.map.options.maxBounds)
ZoomToMaxBounds(c, isPreviewViewer, m, flightDurationSeconds) ==
    LET r == FlyToBounds(c, isPreviewViewer, m, The(m.maxBounds),
                         AnimateOption(flightDurationSeconds))
    IN Outcome(r.map, r.call, "maxBounds", r.animate,
               GetBoundsZoom(c, m, NativeOf(The(m.maxBounds))), FALSE)

\* the second branch of doZoomTo: zoom to a multipoint extent.  map.project
\* and crs.project run outside any try block, so a domain error leaves
\* doZoomTo as an exception (a rejected promise)
ZoomToExtent(c, isPreviewViewer, m, latLngs, flightDurationSeconds) ==
    IF \E i \in 1..Len(latLngs) : Throws(latLngs[i])
    THEN Outcome(m, "none", "extent", FALSE, Undef, TRUE)
    ELSE LET nb == NativeBoundsOf(latLngs)
             newZoom == ExtentZoom(c, m, nb)
             newCenter == Unproject(GetCenter(nb))
             r == PatchedFlyTo(c, isPreviewViewer, m, newCenter, newZoom,
                               AnimateOption(flightDurationSeconds))
         IN Outcome(r.map, r.call, "extent", r.animate, newZoom, FALSE)

\* the last branch of doZoomTo: super.doZoomTo(target, flightDurationSeconds);
\* what the base class then does to the view is outside this model
ZoomToSuper(m) == Outcome(m, "super", "super", FALSE, Undef, FALSE)

\* (for comparison) doZoomTo without the home-camera branch
doZoomToWithoutHome(c, isPreviewViewer, m, target, flightDurationSeconds) ==
    IF IsSome(target.extent)
    THEN ZoomToExtent(c, isPreviewViewer, m, The(target.extent), flightDurationSeconds)
    ELSE ZoomToSuper(m)

\* doZoomTo(target, flightDurationSeconds); target is [home, extent]: home when
\* it is terriaViewer.homeCamera, extent the points of a CameraView's extent
\* array or none
doZoomTo(c, isPreviewViewer, m, target, flightDurationSeconds) ==
    IF target.home /\ IsSome(m.maxBounds)
    THEN ZoomToMaxBounds(c, isPreviewViewer, m, flightDurationSeconds)
    ELSE IF IsSome(target.extent)
    THEN ZoomToExtent(c, isPreviewViewer, m, The(target.extent), flightDurationSeconds)
    ELSE ZoomToSuper(m)

(***************************************************************************)
(* LeafletWithCrs: getCurrentCameraView.                                   *)
(***************************************************************************)
\* (for comparison) an export of the four corners that leaves the ring open
getCurrentCameraViewOpenRing(c, m, initialView) ==
    IF initialView THEN [kind |-> "initial", extent |-> <<>>]
    ELSE LET bounds == getCurrentNativeBounds(c, m)
         IN IF bounds.k /= "ok" THEN [kind |-> "super", extent |-> <<>>]
            ELSE [kind |-> "extent",
                  extent |-> <<Unproject(GetBottomLeft(bounds.b)),
                               Unproject(GetTopLeft(bounds.b)),
                               Unproject(GetTopRight(bounds.b)),
                               Unproject(GetBottomRight(bounds.b))>>]

\* [kind, extent]: "initial" the pending initial view, "super" the base
\* class's 2-corner view, "extent" the multipoint extent
getCurrentCameraView(c, m, initialView) ==
    IF initialView THEN [kind |-> "initial", extent |-> <<>>]
    ELSE LET bounds == getCurrentNativeBounds(c, m)
         IN IF bounds.k /= "ok" THEN [kind |-> "super", extent |-> <<>>]
            ELSE [kind |-> "extent",
                  extent |-> <<Unproject(GetBottomLeft(bounds.b)),
                               Unproject(GetTopLeft(bounds.b)),
                               Unproject(GetTopRight(bounds.b)),
                               Unproject(GetBottomRight(bounds.b)),
                               Unproject(GetBottomLeft(bounds.b))>>]

(***************************************************************************)
(* LeafletWithCrs: _makeImageryLayerFromParts.                             *)
(***************************************************************************)
\* an imagery provider: its name and the custom CRS of its tiling scheme
Provider(name, customCrs) == [name |-> name, customCrs |-> customCrs]

\* TilingSchemeGenerator.getCustomCrs(tilingScheme) ?? "EPSG:3857"
LayerCrs(provider) ==
    IF IsSome(provider.customCrs) THEN The(provider.customCrs) ELSE "EPSG:3857"

\* _makeImageryLayerFromParts, had it substituted the alternate provider in
\* every viewer
makeImageryLayerFromPartsAnyViewer(c, isPreviewViewer, m, parts) ==
    LET dropped == [passed |-> FALSE, provider |-> None, layer |-> None]
        made(provider) ==
            [passed |-> TRUE, provider |-> Some(provider),
             layer |-> Some([st |-> "made", minZoom |-> GetMinZoom(m),
                             minNativeZoom |-> Undef])]
    IN IF ~IsSome(parts.imageryProvider) THEN dropped
       ELSE IF LayerCrs(The(parts.imageryProvider)) /= c.code
       THEN IF ~IsSome(parts.previewImageryProvider) THEN dropped
            ELSE made(The(parts.previewImageryProvider))
       ELSE made(The(parts.imageryProvider))

\* _makeImageryLayerFromParts(parts, item): parts is [imageryProvider,
\* previewImageryProvider], the second being what parts.previewImageryProvider
\* returns for the map CRS (none when the function is absent).  The result is
\* [passed, provider, layer]: whether the base class was asked for a layer,
\* with which provider, and the tile layer it made
makeImageryLayerFromParts(c, isPreviewViewer, m, parts) ==
    LET dropped == [passed |-> FALSE, provider |-> None, layer |-> None]
        made(provider) ==
            [passed |-> TRUE, provider |-> Some(provider),
             layer |-> Some([st |-> "made", minZoom |-> GetMinZoom(m),
                             minNativeZoom |-> Undef])]
    IN IF ~IsSome(parts.imageryProvider) THEN dropped
       ELSE IF LayerCrs(The(parts.imageryProvider)) /= c.code
       THEN IF isPreviewViewer
            THEN IF ~IsSome(parts.previewImageryProvider) THEN dropped
                 ELSE made(The(parts.previewImageryProvider))
            ELSE dropped
       ELSE made(The(parts.imageryProvider))


(***************************************************************************)
(* State.                                                                  *)
(***************************************************************************)
(***************************************************************************)
(* PluginModel (PluginModel.ts).  The plugin is the record                 *)
(*   [enabled, installed, module, selectedCrs, baseMap, loadingBaseMap,    *)
(*    models, strata, nSet, calls]                                         *)
(* installed: setup has registered the generator and overridden the loader;*)
(* module: the state of the lazy import of LeafeltWithCrs, "unstarted"     *)
(* until leafletCrsPromise is first read, then "pending", then "fulfilled" *)
(* or "rejected"; baseMap and loadingBaseMap: terria.mainViewer's; models: *)
(* terria.modelValues; strata: the keys of model.strata of each model that *)
(* has CRS traits; calls: the calls of the viewer loader, in order.        *)
(***************************************************************************)
\* a model of the catalog: its id, whether it has the traits isCrsModel tests
\* for, and its crs trait
Model(id, crsTraits, crsCode) == [id |-> id, crsTraits |-> crsTraits, crs |-> crsCode]

\* isCrsModel(model): the model has CrsTraits' crs and MappableTraits' show
isCrsModel(model) == model.crsTraits

\* the models of the catalog, two with CRS traits and one without
CatalogModels ==
    {Model("wms1", TRUE, None), Model("wms2", TRUE, None), Model("csv", FALSE, None)}

CrsModelIds == {m.id : m \in {n \in CatalogModels : isCrsModel(n)}}

\* CrsModelStratum.stratumName, and CrsModelStratum.name, the name of the class
stratumName == "customCrsModelStratum"
className == "CrsModelStratum"

\* the effect of overrideCrsModels' reaction on the models handed to it:
\* enabled, a model with CRS traits gets the stratum unless its strata have
\* stratumName; disabled, it loses stratumName if its strata have the name
\* of the class.  nSet counts the calls of model.strata.set.
overrideCrsModels(pl, models) ==
    LET Present(id) == \E m \in models : m.id = id /\ isCrsModel(m)
        Sets(id) == Present(id) /\ pl.enabled /\ stratumName \notin pl.strata[id]
        Deletes(id) == Present(id) /\ ~pl.enabled /\ className \in pl.strata[id]
    IN [pl EXCEPT !.strata = [id \in CrsModelIds |->
                                 IF Sets(id) THEN @[id] \cup {stratumName}
                                 ELSE IF Deletes(id) THEN @[id] \ {stratumName}
                                 ELSE @[id]],
                  !.nSet = [id \in CrsModelIds |->
                               IF Sets(id) THEN @[id] + 1 ELSE @[id]]]

BASEMAP_CRS == "basemapcrs"

\* the availableCrs trait of the configuration
availableCrs == {"EPSG:3031", UnboundedCode, "EPSG:32633", "EPSG:9999"}

\* allAvailableCrs: [...availableCrs, "EPSG:3857"].filter(isKnownCrs)
allAvailableCrs == {c \in availableCrs \cup {"EPSG:3857"} : isKnownCrs(c)}

\* baseMapCrs: the crs of the active base map if it is a CRS model, else
\* that of the loading base map if that is one
baseMapCrs(pl) ==
    IF IsSome(pl.baseMap) /\ isCrsModel(The(pl.baseMap)) THEN The(pl.baseMap).crs
    ELSE IF IsSome(pl.loadingBaseMap) /\ isCrsModel(The(pl.loadingBaseMap))
    THEN The(pl.loadingBaseMap).crs
    ELSE None

\* (for comparison) currentCrs without the test against allAvailableCrs
currentCrsOfAnyKnown(pl) ==
    LET sel == IF pl.selectedCrs = Some(BASEMAP_CRS) THEN baseMapCrs(pl)
               ELSE pl.selectedCrs
    IN IF IsSome(sel) /\ isKnownCrs(The(sel))
       THEN The(sel)
       ELSE "EPSG:3857"

\* currentCrs: the CRS to use in 2D mode
currentCrs(pl) ==
    LET sel == IF pl.selectedCrs = Some(BASEMAP_CRS) THEN baseMapCrs(pl)
               ELSE pl.selectedCrs
    IN IF IsSome(sel) /\ The(sel) \in allAvailableCrs /\ isKnownCrs(The(sel))
       THEN The(sel)
       ELSE "EPSG:3857"

\* leafletCrsPromise.get(): the first read starts the import
GetLeafletCrsPromise(pl) ==
    [pl EXCEPT !.module = IF @ = "unstarted" THEN "pending" ELSE @]

\* lazyLeafletCrs(): the module once fulfilled, undefined while pending and
\* after a rejection (case has no rejected handler); TRUE stands for the module
lazyLeafletCrs(pl) == GetLeafletCrsPromise(pl).module = "fulfilled"

\* CustomCrsTilingScheme.build(crs, crsDefinition)
build(code, definition) ==
    LET projCrs == buildProjCrs(code, definition)
    IN IF IsSome(projCrs)
       THEN Some([crs |-> The(projCrs), tileWidth |-> 256, tileHeight |-> 256])
       ELSE None

\* (for comparison) a generator that does not wait for the lazy module
tilingSchemeGeneratorEager(pl, code) ==
    IF ~IsSome(code) \/ isCrsHandledByTerria(The(code)) \/ The(code) \notin allAvailableCrs
    THEN None
    ELSE build(The(code), FindDefinition(The(code)))

\* the generator registerTilingSchemeGenerator registers: the tiling scheme
\* for a CRS code, or none
tilingSchemeGenerator(pl, code) ==
    IF ~IsSome(code) \/ isCrsHandledByTerria(The(code)) \/ The(code) \notin allAvailableCrs
    THEN None
    ELSE IF lazyLeafletCrs(pl)
         THEN build(The(code), FindDefinition(The(code)))
         ELSE None

\* the map CRS the loader reads for a viewer: previewed.previewCrs in a
\* preview viewer (none when the previewed item is no CRS model), else
\* currentCrs
MapCrsOf(pl, viewer) ==
    IF viewer.preview THEN viewer.previewCrs ELSE Some(currentCrs(pl))

\* a call of the viewer loader: [st, preview, mapCrs, result, projCrs];
\* st is "waiting" at the await of leafletCrsPromise, "done" once the call
\* has resolved, "rejected" once it has rejected; result is "default" (the
\* host's viewer) or "custom" (leafletWithCrs on projCrs)
LoaderCall(st, viewer, mapCrs, result, projCrs) ==
    [st |-> st, preview |-> viewer.preview, mapCrs |-> mapCrs,
     result |-> result, projCrs |-> projCrs]

\* the loader up to its await: the original loader before setup, the
\* original promise while the plugin is disabled, else the map CRS is read
\* and the call awaits the lazy module
loaderStart(pl, viewer) ==
    IF ~pl.installed \/ ~pl.enabled
    THEN LoaderCall("done", viewer, None, "default", None)
    ELSE LoaderCall("waiting", viewer, MapCrsOf(pl, viewer), "none", None)

\* (for comparison) a loader that reads the map CRS after its await
loaderResumeRereading(pl, call) ==
    IF pl.module = "rejected" THEN [call EXCEPT !.st = "rejected"]
    ELSE LET mapCrs == IF call.preview THEN call.mapCrs ELSE Some(currentCrs(pl))
             projCrs == IF IsSome(mapCrs) /\ ~isCrsHandledByTerria(The(mapCrs))
                        THEN buildProjCrs(The(mapCrs), FindDefinition(The(mapCrs)))
                        ELSE None
         IN [call EXCEPT !.st = "done", !.projCrs = projCrs,
                         !.result = IF IsSome(projCrs) THEN "custom" ELSE "default"]

\* the loader after its await: it rejects if the import was rejected; else it
\* builds the CRS of the map CRS it read and resolves with leafletWithCrs on
\* it, or with the original promise when there is no CRS to build
loaderResume(pl, call) ==
    IF pl.module = "rejected" THEN [call EXCEPT !.st = "rejected"]
    ELSE LET projCrs == IF IsSome(call.mapCrs) /\ ~isCrsHandledByTerria(The(call.mapCrs))
                        THEN buildProjCrs(The(call.mapCrs), FindDefinition(The(call.mapCrs)))
                        ELSE None
         IN [call EXCEPT !.st = "done", !.projCrs = projCrs,
                         !.result = IF IsSome(projCrs) THEN "custom" ELSE "default"]

\* the plugin behind a controller: enabled, set up, module loaded
LoadedPlugin(code) ==
    [enabled |-> TRUE, installed |-> TRUE, module |-> "fulfilled",
     selectedCrs |-> Some(code), baseMap |-> None, loadingBaseMap |-> None,
     models |-> {}, strata |-> [id \in CrsModelIds |-> {}],
     nSet |-> [id \in CrsModelIds |-> 0], calls |-> <<>>]

VARIABLES
    plugin,           \* the plugin: its traits, lazy module and loader calls
    crs,              \* the L.Proj.CRS the controller is built on
    isPreviewViewer,  \* terriaViewer instanceof PreviewViewer
    previewed,        \* terriaViewer.previewed (preview viewer), or none
    pc,               \* "new" before the constructor has run, then "built"
    show,             \* the show trait of each catalog item
    map,              \* the Leaflet map (this.map)
    handlers,         \* the map events the controller listens to
    events,           \* layeradd / layerremove events fired so far
    last              \* the most recent operation and its outcome

vars == <<plugin, crs, isPreviewViewer, previewed, pc, show, map, handlers, events, last>>

Items == {ItemIds[i] : i \in 1..Len(ItemIds)}

\* the record kept of an operation
Op(op, home, dur, r, res) ==
    [op |-> op, home |-> home, dur |-> dur, call |-> r.call, via |-> r.via,
     animate |-> r.animate, zoom |-> r.zoom, threw |-> r.threw, res |-> res]

Plain(m) == Outcome(m, "none", "none", FALSE, Undef, FALSE)

Init ==
    /\ crs \in ProjCrs
    /\ plugin = LoadedPlugin(crs.code)
    /\ isPreviewViewer \in BOOLEAN
    /\ previewed \in IF isPreviewViewer THEN {None, Some("p")} ELSE {None}
    /\ pc = "new"
    /\ show = [i \in Items |-> FALSE]
    /\ map = BaseMap
    /\ handlers = {}
    /\ events = 0
    /\ last = Op("none", FALSE, 0, Plain(map), <<>>)

\* the positions of a controller whose constructor has run: waiting for the
\* map to load, built on a loaded map, destroyed
Constructed == {"waiting", "built", "destroyed"}

\* new LeafletWithCrs(...): the base constructor, patchFlyTo, setupMaxBounds
Construct ==
    /\ pc = "new"
    /\ LET r == setupMaxBounds(crs, map, itemBounds(crs, previewed, show))
       IN /\ map' = r.map
          /\ handlers' = r.handlers
    /\ pc' = "built"
    /\ last' = Op("construct", FALSE, 0, Plain(map'), <<>>)
    /\ UNCHANGED <<plugin, crs, isPreviewViewer, previewed, show, events>>

\* the host shows or hides a catalog item
ToggleShow(i) ==
    /\ show' = [show EXCEPT ![i] = ~@]
    /\ last' = Op("toggleShow", FALSE, 0, Plain(map), <<>>)
    /\ UNCHANGED <<plugin, crs, isPreviewViewer, previewed, pc, map, handlers, events>>

\* the handler of a layer event, when one is registered
OnLayerEvent(ev, m) ==
    IF ev \in handlers
    THEN updateMaxBounds(crs, m, itemBounds(crs, previewed, show))
    ELSE m

\* the imagery parts the host hands over
Providers ==
    {Provider("native", Some(crs.code)), Provider("mercator", None),
     Provider("other", Some("EPSG:4326"))}

ImageryParts ==
    [imageryProvider : {None} \cup {Some(pr) : pr \in Providers},
     previewImageryProvider : {None, Some(Provider("preview", Some(crs.code)))}]

\* the host asks for the layer of an item's imagery parts and keeps it
MakeImageryLayer(l, parts) ==
    /\ pc \in Constructed
    /\ map.layers[l].st = "none"
    /\ LET r == makeImageryLayerFromParts(crs, isPreviewViewer, map, parts)
       IN /\ map' = IF IsSome(r.layer)
                    THEN [map EXCEPT !.layers[l] = The(r.layer)]
                    ELSE map
          /\ last' = Op("makeLayer", FALSE, 0, Plain(map'),
                        [parts |-> parts, passed |-> r.passed, provider |-> r.provider,
                         made |-> IsSome(r.layer)])
    /\ UNCHANGED <<plugin, crs, isPreviewViewer, previewed, pc, show, handlers, events>>

\* map.addLayer(layer): the layer joins the map and layeradd fires
LayerAdd(l) ==
    /\ pc \in Constructed
    /\ events < MaxEvents
    /\ map.layers[l].st = "made"
    /\ map' = OnLayerEvent("layeradd", [map EXCEPT !.layers[l].st = "on"])
    /\ events' = events + 1
    /\ last' = Op("layeradd", FALSE, 0, Plain(map'), <<>>)
    /\ UNCHANGED <<plugin, crs, isPreviewViewer, previewed, pc, show, handlers>>

\* map.removeLayer(layer): the layer leaves the map and layerremove fires
LayerRemove(l) ==
    /\ pc \in Constructed
    /\ events < MaxEvents
    /\ map.layers[l].st = "on"
    /\ map' = OnLayerEvent("layerremove", [map EXCEPT !.layers[l] = NoLayer])
    /\ events' = events + 1
    /\ last' = Op("layerremove", FALSE, 0, Plain(map'), <<>>)
    /\ UNCHANGED <<plugin, crs, isPreviewViewer, previewed, pc, show, handlers>>

\* geographic targets: points of the projection's domain and one outside it
OffDomain == [of |-> Pt(0, 0), valid |-> FALSE]

\* the fly-to requests the host makes
FlyToTargets == {Unproject(Pt(0, 0)), OffDomain}
FlyToZooms == {Undef, Fin(3), Inf, NegInf, NaN}
AnimateOptions == {"undef", "true", "false"}

\* map.flyTo(latLng, zoom, options) on the patched map
FlyTo(latLng, zoom, optAnimate) ==
    /\ pc = "built"
    /\ LET r == PatchedFlyTo(crs, isPreviewViewer, map, latLng, zoom, optAnimate)
       IN /\ map' = r.map
          /\ last' = Op("flyTo", FALSE, 0,
                        Outcome(r.map, r.call, "none", r.animate, zoom, r.threw),
                        [latLng |-> latLng, optAnimate |-> optAnimate])
    /\ UNCHANGED <<plugin, crs, isPreviewViewer, previewed, pc, show, handlers, events>>

\* a closed 5-point extent over the corners of a native box
ExtentOf(b) ==
    <<Unproject(GetBottomLeft(b)), Unproject(GetTopLeft(b)), Unproject(GetTopRight(b)),
      Unproject(GetBottomRight(b)), Unproject(GetBottomLeft(b))>>

\* the extents of zoom-to requests, sized in units of the CRS's resolution:
\* a square, a wide box, a single point, and one with a point out of domain
Extents ==
    LET u == crs.resZoom0
    IN {ExtentOf(LBounds(Pt(-4 * u, -4 * u), Pt(4 * u, 4 * u))),
        ExtentOf(LBounds(Pt(0, 0), Pt(64 * u, 32 * u))),
        ExtentOf(LBounds(Pt(u, u), Pt(u, u))),
        <<Unproject(Pt(0, 0)), OffDomain, Unproject(Pt(u, u)), Unproject(Pt(0, 0))>>}

ZoomTargets ==
    [home : BOOLEAN, extent : {None} \cup {Some(e) : e \in Extents}]

FlightDurations == {0, 3}

\* doZoomTo(target, flightDurationSeconds)
DoZoomTo(target, flightDurationSeconds) ==
    /\ pc = "built"
    /\ LET r == doZoomTo(crs, isPreviewViewer, map, target, flightDurationSeconds)
       IN /\ map' = r.map
          /\ last' = Op("doZoomTo", target.home, flightDurationSeconds, r,
                        [extent |-> target.extent])
    /\ UNCHANGED <<plugin, crs, isPreviewViewer, previewed, pc, show, handlers, events>>

\* getCurrentCameraView(); initialView tells whether getInitialView() has one
GetCurrentCameraView(initialView) ==
    /\ pc = "built"
    /\ last' = Op("getCurrentCameraView", FALSE, 0, Plain(map),
                  [initialView |-> initialView,
                   view |-> getCurrentCameraView(crs, map, initialView)])
    /\ UNCHANGED <<plugin, crs, isPreviewViewer, previewed, pc, show, map, handlers, events>>

\* the bounding-box records handed to parseBounds: min and max absent or
\* points whose coordinates are absent, 0, or a value on either side of it
Coords == {None, Some(0), Some(-4096), Some(4096)}
Corners == {None} \cup {Some([x |-> x, y |-> y]) : x \in Coords, y \in Coords}
BoxRecords == {None} \cup {Some(Box("EPSG:3031", mn, mx)) : mn \in Corners, mx \in Corners}

\* parseBounds(bounds)
ParseBounds(b) ==
    /\ last' = Op("parseBounds", FALSE, 0, Plain(map),
                  [box |-> b, bounds |-> parseBounds(b)])
    /\ UNCHANGED <<plugin, crs, isPreviewViewer, previewed, pc, show, map, handlers, events>>

\* the codes and options handed to buildProjCrs: native codes, custom codes
\* proj4 knows and one it does not; options absent or with every combination
\* of a proj4Definition, projectedBounds and resolutions
BuildCodes == {"EPSG:3857", "EPSG:4326", "EPSG:3031", UnboundedCode, "EPSG:9999"}

BuildOptions(code) ==
    {None} \cup
    {Some(Definition(code, d, b, r)) :
        d \in {None, Some(""), Some("ok"), Some("malformed")},
        b \in {None,
               Some(Box(code, Corner(-4096, -4096), Corner(4096, 4096))),
               Some(Box(code, Corner(-4096, -4096), None))},
        r \in {None, Some(<<8192, 4096>>)}}

\* buildProjCrs(crs, options)
BuildProjCrs(code, options) ==
    /\ last' = Op("buildProjCrs", FALSE, 0, Plain(map),
                  [code |-> code, options |-> options,
                   projCrs |-> buildProjCrs(code, options)])
    /\ UNCHANGED <<plugin, crs, isPreviewViewer, previewed, pc, show, map, handlers, events>>

\* a read of the computed itemBounds
ReadItemBounds ==
    /\ last' = Op("itemBounds", FALSE, 0, Plain(map),
                  [bounds |-> itemBounds(crs, previewed, show)])
    /\ UNCHANGED <<plugin, crs, isPreviewViewer, previewed, pc, show, map, handlers, events>>

\* the CRS definitions tiling schemes are built from: the bounded default,
\* one without bounds, one with bounds that are not square, one with small
\* bounds and one with a resolutions array that is not a sequence of halvings
TilingDefinitions ==
    {d \in defaultCrsDefinitions : d.crs = "EPSG:3031"}
    \cup {Definition(UnboundedCode, None, None, None),
          Definition("EPSG:3031", None,
                     Some(Box("EPSG:3031", Corner(-4096, -2048), Corner(4096, 2048))), None),
          Definition("EPSG:3031", None,
                     Some(Box("EPSG:3031", Corner(-384, -384), Corner(384, 384))), None),
          Definition("EPSG:3031", None,
                     Some(Box("EPSG:3031", Corner(-4096, -4096), Corner(4096, 4096))),
                     Some(<<30, 10, 5>>))}

TilingCrs == {The(buildProjCrs(d.crs, Some(d))) : d \in TilingDefinitions}

\* the zooms handed to crs.scale: whole levels, and zooms between levels
\* where the CRS has no resolutions array
ZoomInputs(c) ==
    {Level(z) : z \in -2..3} \cup {Level(17)}
    \cup (IF IsSome(c.resolutions) THEN {}
          ELSE {[exp2 |-> Rat(3, 1)], [exp2 |-> Rat(1, 3)], [exp2 |-> Rat(5, 2)]})

\* the scales handed to crs.zoom
ScaleInputs ==
    {Rat(1, 32768), Rat(1, 256), Rat(1, 30), Rat(1, 10), Rat(1, 5), Rat(1, 3),
     Whole(1), Whole(3), Rat(5, 2)}

\* crs.zoom(crs.scale(zoom))
ZoomOfScale(z) ==
    /\ LET s == crsScale(crs, z)
       IN last' = Op("zoomOfScale", FALSE, 0, Plain(map),
                     [zoom |-> z, scale |-> s,
                      back |-> IF IsSome(s) THEN crsZoom(crs, The(s)) ELSE None])
    /\ UNCHANGED <<plugin, crs, isPreviewViewer, previewed, pc, show, map, handlers, events>>

\* crs.scale(crs.zoom(scale))
ScaleOfZoom(s) ==
    /\ LET z == crsZoom(crs, s)
       IN last' = Op("scaleOfZoom", FALSE, 0, Plain(map),
                     [scale |-> s, zoom |-> z,
                      back |-> IF IsSome(z) THEN crsScale(crs, The(z)) ELSE None])
    /\ UNCHANGED <<plugin, crs, isPreviewViewer, previewed, pc, show, map, handlers, events>>

\* the scheme built on the CRS: new CustomCrsTilingScheme({crs, 256, 256})
Scheme == [crs |-> crs, tileWidth |-> 256, tileHeight |-> 256]

\* the levels tiles are asked at
TileLevels == {0, 1, 2, 3, 17}

\* getNumberOfXTilesAtLevel(level), getNumberOfYTilesAtLevel(level)
TileCountAtLevel(level) ==
    /\ last' = Op("tileCountAtLevel", FALSE, 0, Plain(map),
                  [level |-> level, count |-> getNumberOfTilesAtLevel(Scheme, level)])
    /\ UNCHANGED <<plugin, crs, isPreviewViewer, previewed, pc, show, map, handlers, events>>

\* the tile coordinates asked at a level: the first tiles and, at level 17,
\* the last
TileCoords(level) == {0, 1, 2, 3} \cup (IF level = 17 THEN {131071} ELSE {})

\* tileXYToNativeRectangle(x, y, level)
NativeRectangleForTile(x, y, level) ==
    /\ last' = Op("nativeRectangleForTile", FALSE, 0, Plain(map),
                  [x |-> x, y |-> y, level |-> level,
                   rectangle |-> tileXYToNativeRectangle(Scheme, x, y, level)])
    /\ UNCHANGED <<plugin, crs, isPreviewViewer, previewed, pc, show, map, handlers, events>>

\* the corners of the native rectangle of a tile
SouthWest(r) == Pt(Dec8(r.west), Dec8(r.south))
NorthEast(r) == Pt(Dec8(r.east), Dec8(r.north))

\* the tiles whose geographic rectangle the model can take: the tiles of a
\* level (x and y below the tile count) of a bounded CRS with a scale at the
\* level, with both corners on an axis or a diagonal
HasPosition(x, y, level) ==
    /\ IsSome(crs.bounds) /\ IsSome(crsScale(crs, Level(level)))
    /\ LET count == getNumberOfTilesAtLevel(Scheme, level)
       IN RatLeq(Whole(x + 1), count.x) /\ RatLeq(Whole(y + 1), count.y)
    /\ LET r == tileXYToNativeRectangle(Scheme, x, y, level)
       IN OnRay(SouthWest(r)) /\ OnRay(NorthEast(r))

\* positionToTileXY(Rectangle.center(tileXYToRectangle(x, y, level)), level)
TileOfCenter(x, y, level) ==
    /\ HasPosition(x, y, level)
    /\ LET rectangle == tileXYToRectangle(Scheme, x, y, level)
           center == RectangleCenter(rectangle)
       IN last' = Op("tileOfCenter", FALSE, 0, Plain(map),
                     [x |-> x, y |-> y, level |-> level, rectangle |-> rectangle,
                      center |-> center,
                      tile |-> positionToTileXY(Scheme, center, level)])
    /\ UNCHANGED <<plugin, crs, isPreviewViewer, previewed, pc, show, map, handlers, events>>

\* the controller's variables, untouched by the plugin before a viewer exists
\* map.whenReady(callback): what the callback registers is registered at
\* once on a loaded map, and by a listener of `load` otherwise
whenReady(loaded, registrations) ==
    IF loaded \/ registrations = {} THEN registrations ELSE {"load"}

\* the constructor on a map whose view the base constructor has not set: the
\* first update runs, the registrations wait for `load`
ConstructUnready ==
    /\ pc = "new"
    /\ LET r == setupMaxBounds(crs, map, itemBounds(crs, previewed, show))
       IN /\ map' = r.map
          /\ handlers' = whenReady(FALSE, r.handlers)
    /\ pc' = "waiting"
    /\ last' = Op("construct", FALSE, 0, Plain(map'), <<>>)
    /\ UNCHANGED <<plugin, crs, isPreviewViewer, previewed, show, events>>

\* the map fires `load`: the callback given to whenReady registers the layer
\* handlers
MapLoad ==
    /\ pc = "waiting"
    /\ handlers' = IF "load" \in handlers THEN LayerEvents ELSE handlers
    /\ pc' = "built"
    /\ last' = Op("load", FALSE, 0, Plain(map), <<>>)
    /\ UNCHANGED <<plugin, crs, isPreviewViewer, previewed, show, map, events>>

\* destroy(), had it left the layerremove handler registered (for comparison)
destroyKeepingLayerRemove(hs) == hs \ {"layeradd"}

\* destroy(): map.off("layeradd"), map.off("layerremove"); the handlers left
destroy(hs) == hs \ LayerEvents

\* controller.destroy(); the map of a destroyed controller never loads
Destroy ==
    /\ pc \in {"waiting", "built"}
    /\ handlers' = destroy(handlers)
    /\ pc' = "destroyed"
    /\ last' = Op("destroy", FALSE, 0, Plain(map), <<>>)
    /\ UNCHANGED <<plugin, crs, isPreviewViewer, previewed, show, map, events>>

ControllerVars == <<crs, isPreviewViewer, previewed, pc, show, map, handlers, events>>

\* the record of a plugin operation that returns nothing to look at
PluginOp == Op("plugin", FALSE, 0, Plain(BaseMap), <<>>)

\* the enabled trait is set; the first time it becomes true, setup registers
\* the generator, overrides the loader and starts the reaction of
\* overrideCrsModels, which runs at once on the models there are
SetEnabled(b) ==
    /\ plugin.enabled /= b
    /\ LET pl == [plugin EXCEPT !.enabled = b, !.installed = @ \/ b]
       IN plugin' = IF b /\ ~plugin.installed
                    THEN overrideCrsModels(pl, pl.models)
                    ELSE pl
    /\ last' = PluginOp
    /\ UNCHANGED ControllerVars

\* the selectedCrs trait is set
Selections ==
    {Some(BASEMAP_CRS), Some("EPSG:3031"), Some("EPSG:3857"), Some("EPSG:32633")}

SelectCrs(sel) ==
    /\ plugin.selectedCrs /= sel
    /\ plugin' = [plugin EXCEPT !.selectedCrs = sel]
    /\ last' = PluginOp
    /\ UNCHANGED ControllerVars

\* terria.modelValues changes: models are added to or removed from the
\* catalog; once set up, the reaction of overrideCrsModels runs on the new
\* models
ModelsChange(models) ==
    /\ plugin.models /= models
    /\ LET pl == [plugin EXCEPT !.models = models]
       IN plugin' = IF plugin.installed THEN overrideCrsModels(pl, models) ELSE pl
    /\ last' = PluginOp
    /\ UNCHANGED ControllerVars

\* the values of the selectedCrs trait: unset, the sentinel, an available CRS
\* proj4 knows, the fallback, one proj4 knows that is not available, and one
\* that is available and that proj4 does not know
AnySelections ==
    {None, Some(BASEMAP_CRS), Some("EPSG:3031"), Some("EPSG:3857"),
     Some("EPSG:4326"), Some("EPSG:9999")}

\* the base maps of the main viewer: none, CRS models with a custom crs, with
\* one proj4 does not know, with one that is not available and with none, and
\* a model without CRS traits
BaseMapItems ==
    {None, Some(Model("polar", TRUE, Some("EPSG:3031"))),
     Some(Model("unknown", TRUE, Some("EPSG:9999"))),
     Some(Model("geographic", TRUE, Some("EPSG:4326"))),
     Some(Model("unset", TRUE, None)),
     Some(Model("plain", FALSE, Some("EPSG:3031")))}

\* the main viewer starts loading a base map
LoadBaseMap(b) ==
    /\ plugin.loadingBaseMap /= b
    /\ plugin' = [plugin EXCEPT !.loadingBaseMap = b]
    /\ last' = PluginOp
    /\ UNCHANGED ControllerVars

\* the loading base map becomes the active one
BaseMapLoaded ==
    /\ IsSome(plugin.loadingBaseMap)
    /\ plugin' = [plugin EXCEPT !.baseMap = plugin.loadingBaseMap, !.loadingBaseMap = None]
    /\ last' = PluginOp
    /\ UNCHANGED ControllerVars

\* the import of LeafeltWithCrs completes
ModuleLoaded ==
    /\ plugin.module = "pending"
    /\ plugin' = [plugin EXCEPT !.module = "fulfilled"]
    /\ last' = PluginOp
    /\ UNCHANGED ControllerVars

\* the import of LeafeltWithCrs fails
ModuleFailed ==
    /\ plugin.module = "pending"
    /\ plugin' = [plugin EXCEPT !.module = "rejected"]
    /\ last' = PluginOp
    /\ UNCHANGED ControllerVars

\* the viewers the host loads: the main viewer, a preview viewer on an item
\* with a custom previewCrs, on one whose previewCrs proj4 does not know
Viewers ==
    {[preview |-> FALSE, previewCrs |-> None],
     [preview |-> TRUE, previewCrs |-> Some("EPSG:3031")],
     [preview |-> TRUE, previewCrs |-> Some("EPSG:9999")]}

\* number of loader calls followed
MaxCalls == 2

\* TerriaViewer.Loaders[ViewerMode.Leaflet](terriaViewer) is called
LoadViewer(viewer) ==
    /\ Len(plugin.calls) < MaxCalls
    /\ LET call == loaderStart(plugin, viewer)
           pl == IF call.st = "waiting" THEN GetLeafletCrsPromise(plugin) ELSE plugin
       IN plugin' = [pl EXCEPT !.calls = Append(@, call)]
    /\ last' = PluginOp
    /\ UNCHANGED ControllerVars

\* a loader call continues after its await, the import having settled
ResumeLoader(k) ==
    /\ k \in 1..Len(plugin.calls)
    /\ plugin.calls[k].st = "waiting"
    /\ plugin.module \in {"fulfilled", "rejected"}
    /\ plugin' = [plugin EXCEPT !.calls[k] = loaderResume(plugin, @)]
    /\ last' = Op("resumeLoader", FALSE, 0, Plain(BaseMap),
                  [call |-> k, currentCrs |-> currentCrs(plugin)])
    /\ UNCHANGED ControllerVars

\* the codes the host asks a tiling scheme for
SchemeCodes ==
    {None, Some("EPSG:3857"), Some("EPSG:3031"), Some(UnboundedCode),
     Some("EPSG:32633"), Some("EPSG:9999"), Some("EPSG:28355")}

\* the host calls the registered tiling-scheme generator; a code that passes
\* its tests makes it read leafletCrsPromise
GenerateTilingScheme(code) ==
    /\ plugin.installed
    /\ plugin' = IF ~IsSome(code) \/ isCrsHandledByTerria(The(code))
                    \/ The(code) \notin allAvailableCrs
                 THEN plugin
                 ELSE GetLeafletCrsPromise(plugin)
    /\ last' = Op("tilingScheme", FALSE, 0, Plain(BaseMap),
                  [code |-> code, scheme |-> tilingSchemeGenerator(plugin, code)])
    /\ UNCHANGED ControllerVars

\* The controller's life with its catalog and layers: construction, items
\* shown and hidden, layers made, added and removed.
Next ==
    \/ Construct
    \/ \E i \in Items : ToggleShow(i)
    \/ \E l \in LayerIds, parts \in ImageryParts : MakeImageryLayer(l, parts)
    \/ \E l \in LayerIds : LayerAdd(l)
    \/ \E l \in LayerIds : LayerRemove(l)

Spec == Init /\ [][Next]_vars

\* The controller's view operations, on every controller the catalog can
\* give at construction: fly-to, zoom-to and current-view export.
NextView ==
    \/ Construct
    \/ \E i \in Items : ToggleShow(i)
    \/ \E ll \in FlyToTargets, z \in FlyToZooms, a \in AnimateOptions : FlyTo(ll, z, a)
    \/ \E t \in ZoomTargets, d \in FlightDurations : DoZoomTo(t, d)
    \/ \E iv \in BOOLEAN : GetCurrentCameraView(iv)

SpecView == Init /\ [][NextView]_vars


\* Bounding boxes parsed and aggregated, on every catalog state (items shown
\* and hidden, and every item a preview viewer can preview), and CRSs built
\* from codes and options.
InitBounds ==
    /\ crs \in ProjCrs
    /\ plugin = LoadedPlugin(crs.code)
    /\ isPreviewViewer \in BOOLEAN
    /\ previewed \in IF isPreviewViewer THEN {None, Some("p"), Some("q")} ELSE {None}
    /\ pc = "new"
    /\ show = [i \in Items |-> FALSE]
    /\ map = BaseMap
    /\ handlers = {}
    /\ events = 0
    /\ last = Op("none", FALSE, 0, Plain(map), <<>>)

NextBounds ==
    \/ \E i \in Items : ToggleShow(i)
    \/ \E b \in BoxRecords : ParseBounds(b)
    \/ ReadItemBounds
    \/ \E code \in BuildCodes : \E options \in BuildOptions(code) : BuildProjCrs(code, options)

SpecBounds == InitBounds /\ [][NextBounds]_vars


\* The plugin before any viewer exists: enabled and disabled, the CRS
\* selected, the lazy module loading, viewers loaded and tiling schemes asked.
InitPlugin ==
    /\ plugin \in [enabled : {FALSE}, installed : {FALSE}, module : {"unstarted"},
                   selectedCrs : {Some(BASEMAP_CRS)},
                   baseMap : {None, Some(Model("polar", TRUE, Some("EPSG:3031")))},
                   loadingBaseMap : {None},
                   models : {{}}, strata : {[id \in CrsModelIds |-> {}]},
                   nSet : {[id \in CrsModelIds |-> 0]}, calls : {<<>>}]
    /\ crs = CHOOSE c \in ProjCrs : c.code = "EPSG:3031"
    /\ isPreviewViewer = FALSE
    /\ previewed = None
    /\ pc = "new"
    /\ show = [i \in Items |-> FALSE]
    /\ map = BaseMap
    /\ handlers = {}
    /\ events = 0
    /\ last = Op("none", FALSE, 0, Plain(map), <<>>)

NextPlugin ==
    \/ \E b \in BOOLEAN : SetEnabled(b)
    \/ \E sel \in Selections : SelectCrs(sel)
    \/ ModuleLoaded
    \/ ModuleFailed
    \/ \E viewer \in Viewers : LoadViewer(viewer)
    \/ \E k \in 1..MaxCalls : ResumeLoader(k)
    \/ \E code \in SchemeCodes : GenerateTilingScheme(code)

SpecPlugin == InitPlugin /\ [][NextPlugin]_vars


\* Tiling schemes: the scale and zoom of every CRS of TilingDefinitions and
\* the tiles of the scheme built on it.
InitTiling ==
    /\ crs \in TilingCrs
    /\ plugin = LoadedPlugin(crs.code)
    /\ isPreviewViewer = FALSE
    /\ previewed = None
    /\ pc = "new"
    /\ show = [i \in Items |-> FALSE]
    /\ map = BaseMap
    /\ handlers = {}
    /\ events = 0
    /\ last = Op("none", FALSE, 0, Plain(map), <<>>)

NextTiling ==
    \/ \E z \in ZoomInputs(crs) : ZoomOfScale(z)
    \/ \E s \in ScaleInputs : ScaleOfZoom(s)
    \/ \E level \in TileLevels : TileCountAtLevel(level)
    \/ \E level \in TileLevels : \E x, y \in TileCoords(level) :
           NativeRectangleForTile(x, y, level)
    \/ \E level \in {0, 1, 2} : \E x, y \in TileCoords(level) : TileOfCenter(x, y, level)

SpecTiling == InitTiling /\ [][NextTiling]_vars


\* The plugin and the catalog: the plugin enabled and disabled, models added
\* and removed, the CRS selected and base maps loaded.
InitCatalog ==
    /\ plugin \in [enabled : {FALSE}, installed : {FALSE}, module : {"unstarted"},
                   selectedCrs : {Some(BASEMAP_CRS)},
                   baseMap : {None}, loadingBaseMap : {None},
                   models : SUBSET CatalogModels,
                   strata : {[id \in CrsModelIds |-> {}]},
                   nSet : {[id \in CrsModelIds |-> 0]}, calls : {<<>>}]
    /\ crs = CHOOSE c \in ProjCrs : c.code = "EPSG:3031"
    /\ isPreviewViewer = FALSE
    /\ previewed = None
    /\ pc = "new"
    /\ show = [i \in Items |-> FALSE]
    /\ map = BaseMap
    /\ handlers = {}
    /\ events = 0
    /\ last = Op("none", FALSE, 0, Plain(map), <<>>)

NextCatalog ==
    \/ \E b \in BOOLEAN : SetEnabled(b)
    \/ \E models \in SUBSET CatalogModels : ModelsChange(models)
    \/ \E sel \in AnySelections : SelectCrs(sel)
    \/ \E b \in BaseMapItems : LoadBaseMap(b)
    \/ BaseMapLoaded

SpecCatalog == InitCatalog /\ [][NextCatalog]_vars

\* the controller from its construction, on a loaded map or on one not yet
\* loaded, to after its destruction
NextLifetime ==
    \/ Construct
    \/ ConstructUnready
    \/ MapLoad
    \/ Destroy
    \/ \E i \in Items : ToggleShow(i)
    \/ \E l \in LayerIds, parts \in ImageryParts : MakeImageryLayer(l, parts)
    \/ \E l \in LayerIds : LayerAdd(l)
    \/ \E l \in LayerIds : LayerRemove(l)

SpecLifetime == Init /\ [][NextLifetime]_vars


(***************************************************************************)
(* Claims about the controller's life (checked under Spec).                *)
(***************************************************************************)
\* the controller was built in static mode: the CRS has native bounds
Static == IsSome(crs.bounds)

\* C1: for a controller built on a CRS with known native bounds, map.setMaxBounds
\* is called exactly once, by the constructor, and no layer-add or layer-remove
\* event calls it or map.setMinZoom again; the controller registers no layer
\* handlers (it never behaves as in dynamic mode).
C1_StaticMaxBoundsSetOnce ==
    Static =>
        /\ pc = "new" => map.nSetMaxBounds = 0
        /\ pc = "built" => map.nSetMaxBounds = 1
        /\ map.nSetMinZoom = 0
        /\ handlers = {}
        /\ pc = "built" => map.maxBounds = toLatLngBounds(crs.bounds, crs)

\* C1 witness: a static controller that has seen layers added and removed
C1_Witness ==
    /\ Static /\ pc = "built" /\ events >= 2
    /\ last.op = "layerremove"

\* C2: for a controller built on a CRS without native bounds, max bounds and
\* min zoom are recomputed from the current aggregated item bounds once at
\* construction and again on every layer-add and layer-remove event, and the
\* two mutations always come together: map.setMinZoom and map.setMaxBounds have
\* been called the same number of times, once plus once per event.
C2_DynamicRecomputedOnEveryEvent ==
    (~Static /\ pc = "built") =>
        /\ map.nSetMaxBounds = 1 + events
        /\ map.nSetMinZoom = map.nSetMaxBounds
        /\ last.op \in {"construct", "layeradd", "layerremove"} =>
              LET bounds == itemBounds(crs, previewed, show)
              IN /\ map.maxBounds = toLatLngBounds(bounds, crs)
                 /\ map.minZoom = MinZoomFromBounds(crs, bounds)

\* C2 witness: a dynamic controller after an add and a remove, the item bounds
\* having changed in between, with a min zoom below 0 applied
C2_Witness ==
    /\ ~Static /\ pc = "built" /\ events >= 2
    /\ last.op = "layerremove"
    /\ IsSome(map.maxBounds)
    /\ map.minZoom = Fin(-2)

\* C3: at the end of every update every tile layer on the map has the map's
\* min zoom (options.minZoom, 0 when it was never set).
C3_LayersShareMapMinZoom ==
    \A l \in LayerIds :
        map.layers[l].st = "on" =>
            map.layers[l].minZoom = (IF map.minZoom.k = "undef" THEN Fin(0) ELSE map.minZoom)

\* C3 witness: two tile layers on the map of a dynamic controller, after an
\* update that changed the min zoom they were created with
C3_Witness ==
    /\ ~Static /\ events >= 2
    /\ \A l \in {1, 2} : map.layers[l].st = "on" /\ map.layers[l].minNativeZoom = Fin(0)
    /\ map.minZoom = Fin(-2)

\* C10: a layer whose CRS (EPSG:3857 without a custom CRS) differs from the map
\* CRS yields no layer, except in a preview viewer when the parts supply an
\* alternate provider for the map CRS: then the base class is asked for the
\* layer with that alternate.  A layer whose CRS is the map CRS is passed to
\* the base class with its own provider.
C10_LayerFilter ==
    (last.op = "makeLayer" /\ IsSome(last.res.parts.imageryProvider)) =>
        LET own == The(last.res.parts.imageryProvider)
            alt == last.res.parts.previewImageryProvider
            layerCrs == IF IsSome(own.customCrs) THEN The(own.customCrs) ELSE "EPSG:3857"
        IN IF layerCrs = crs.code
           THEN last.res.passed /\ last.res.made /\ last.res.provider = Some(own)
           ELSE IF isPreviewViewer /\ IsSome(alt)
                THEN last.res.passed /\ last.res.made /\ last.res.provider = alt
                ELSE ~last.res.passed /\ ~last.res.made

\* C10 witness: a preview viewer substitutes the alternate provider
C10_Witness ==
    /\ last.op = "makeLayer" /\ isPreviewViewer
    /\ IsSome(last.res.parts.imageryProvider)
    /\ The(last.res.parts.imageryProvider).customCrs = None
    /\ last.res.provider = Some(Provider("preview", Some(crs.code)))
    /\ last.res.made


(***************************************************************************)
(* Claims about the view operations (checked under SpecView).              *)
(***************************************************************************)
\* C4: a fly-to request whose zoom is defined and not finite (Infinity,
\* -Infinity, NaN) is rejected before Leaflet's flyTo is invoked: the map is
\* unchanged and the call returns normally; a request with an undefined or a
\* finite zoom is forwarded to Leaflet's flyTo.
C4_NonFiniteZoomRejected ==
    [][last'.op = "flyTo" =>
         IF last'.zoom.k \in {"undef", "fin"}
         THEN last'.call = "flyTo" /\ ~last'.threw
         ELSE map' = map /\ last'.call = "none" /\ ~last'.threw]_vars

\* C4 witness: a fly-to with a NaN zoom was rejected
C4_Witness ==
    /\ last.op = "flyTo" /\ last.zoom = NaN
    /\ last.call = "none" /\ ~last.threw

\* a fly-to or zoom-to that meets a domain error of the projection
MeetsDomainError ==
    \/ last.op = "flyTo" /\ Throws(last.res.latLng)
    \/ /\ last.op = "doZoomTo" /\ last.via = "extent"
       /\ \E i \in 1..Len(The(last.res.extent)) : Throws(The(last.res.extent)[i])

\* C5: a fly-to or zoom-to operation in which the transform raises a domain
\* error propagates no error to its caller.
C5_DomainErrorsCaught ==
    MeetsDomainError => ~last.threw

\* the extent of the last zoom-to is a single point of the projection's domain
DegenerateExtent ==
    /\ last.op = "doZoomTo" /\ last.via = "extent"
    /\ LET e == The(last.res.extent)
       IN \A i \in 1..Len(e) : ~Throws(e[i]) /\ e[i] = e[1]

\* C6 as stated: zoom-to-extent with a degenerate extent moves the viewer
\* (Leaflet's flyTo is invoked) and raises no error.
C6_DegenerateExtentMovesViewer ==
    DegenerateExtent => (last.call = "flyTo" /\ ~last.threw)

\* C6 amended: zoom-to-extent with a degenerate extent derives an infinite
\* zoom, which the patched flyTo rejects: Leaflet's flyTo is not invoked, the
\* map is unchanged and no error is raised.
C6_DegenerateExtentRejected ==
    [][DegenerateExtent' =>
         /\ last'.zoom = Inf
         /\ last'.call = "none"
         /\ ~last'.threw
         /\ map' = map]_vars

\* C6 witness: a zoom-to on a single-point extent, on a map at a finite zoom
C6_Witness ==
    /\ DegenerateExtent /\ IsFinite(map.zoom)
    /\ last.zoom = Inf /\ last.call = "none"

\* C7 as stated: every zoom-to whose target is the home camera goes to the
\* max bounds and never to the base class.
C7_HomeAlwaysRedirected ==
    (last.op = "doZoomTo" /\ last.home) =>
        (last.via = "maxBounds" /\ last.call /= "super")

\* C7 amended: a zoom-to whose target is the home camera goes to the map's max
\* bounds when the map has max bounds, and then never to the base class; the
\* map is moved to the center of the max bounds unless the zoom that fits them
\* is not finite (the fly-to is then rejected).  Without max bounds the home
\* camera is treated as any other target: its extent, or the base class.
C7_HomeRedirectedWhenMaxBounds ==
    (last.op = "doZoomTo" /\ last.home) =>
        IF IsSome(map.maxBounds)
        THEN /\ last.via = "maxBounds"
             /\ last.call = (IF IsFinite(last.zoom) THEN "flyTo" ELSE "none")
             /\ IsFinite(last.zoom) =>
                   /\ map.center = GetCenter(NativeOf(The(map.maxBounds)))
                   /\ map.zoom = last.zoom
        ELSE /\ last.via = (IF IsSome(last.res.extent) THEN "extent" ELSE "super")
             /\ last.res.extent = None => last.call = "super"

\* C7 witness: the home camera, carrying an extent of its own, was redirected
\* to the max bounds and the map moved there
C7_Witness ==
    /\ last.op = "doZoomTo" /\ last.home /\ IsSome(last.res.extent)
    /\ last.via = "maxBounds" /\ last.call = "flyTo"
    /\ map.center = GetCenter(NativeOf(The(map.maxBounds)))

\* C8 as stated: a zoom-to movement is animated if and only if the flight
\* duration is greater than zero, on every controller.
C8_AnimatedIffDuration ==
    (last.op = "doZoomTo" /\ last.call = "flyTo") =>
        (last.animate <=> last.dur > 0)

\* C8 amended: a zoom-to movement is animated if and only if the flight
\* duration is greater than zero, the CRS is not infinite (it has native
\* bounds) and the viewer is not a preview viewer.
C8_AnimatedIffDurationAndMainBounded ==
    (last.op = "doZoomTo" /\ last.call = "flyTo") =>
        (last.animate <=> (last.dur > 0 /\ ~crs.infinite /\ ~isPreviewViewer))

\* C8 witness: a movement with a positive duration on the main viewer of an
\* infinite CRS, not animated
C8_Witness ==
    /\ last.op = "doZoomTo" /\ last.call = "flyTo"
    /\ last.dur > 0 /\ ~last.animate /\ crs.infinite /\ ~isPreviewViewer

\* C9: with no initial view pending and valid native bounds of the viewport,
\* the exported extent has exactly 5 points: the unprojections of the corners
\* L.Bounds names bottom-left (min.x, max.y), top-left (min), top-right
\* (max.x, min.y) and bottom-right (max), then the first again; for a viewport
\* of non-zero width and height the first 4 points are pairwise distinct.
C9_FivePointClosedRing ==
    (last.op = "getCurrentCameraView" /\ ~last.res.initialView
        /\ getCurrentNativeBounds(crs, map).k = "ok") =>
        LET b == getCurrentNativeBounds(crs, map).b
            e == last.res.view.extent
        IN /\ last.res.view.kind = "extent"
           /\ Len(e) = 5
           /\ e[1] = Unproject(Pt(b.min.x, b.max.y))
           /\ e[2] = Unproject(Pt(b.min.x, b.min.y))
           /\ e[3] = Unproject(Pt(b.max.x, b.min.y))
           /\ e[4] = Unproject(Pt(b.max.x, b.max.y))
           /\ e[5] = e[1]
           /\ (b.min.x /= b.max.x /\ b.min.y /= b.max.y) =>
                 \A i, j \in 1..4 : i /= j => e[i] /= e[j]

\* C9 witness: an export of a viewport of non-zero size
C9_Witness ==
    /\ last.op = "getCurrentCameraView" /\ ~last.res.initialView
    /\ last.res.view.kind = "extent"
    /\ LET b == getCurrentNativeBounds(crs, map).b
       IN b.min.x < b.max.x /\ b.min.y < b.max.y


(***************************************************************************)
(* Claims about max bounds, item bounds and min zoom (checked under Spec). *)
(***************************************************************************)
\* the bounds a call of setMaxBounds is given: the CRS's own, else the items'
NewBounds == IF Static THEN crs.bounds ELSE itemBounds(crs, previewed, show)

\* the view setMaxBounds finds in the step that calls it: the current one,
\* after the min zoom of updateMaxBounds for an unbounded CRS
ViewAtSetMaxBounds ==
    IF Static THEN map ELSE LSetMinZoom(map, MinZoomFromBounds(crs, NewBounds))

C13_EqualAggregateSkipsUpdate ==
    [][(last'.op \in LayerEvents /\ ~Static
          /\ toLatLngBounds(NewBounds, crs) = map.maxBounds) =>
         /\ map'.nSetMaxBounds = map.nSetMaxBounds
         /\ map'.nSetMinZoom = map.nSetMinZoom]_vars

\* the larger side of a box, in native units
LargerSide(b) == Max2(GetSize(b).x, GetSize(b).y)

\* side * crs.scale(z) <= 256: a native length is at most one tile edge in
\* pixels at zoom z.  At an infinite zoom the product of a length 0 and the
\* infinite scale is NaN and the comparison fails.
AtMostOneTile(c, side, z) ==
    /\ IsFinite(z)
    /\ IF z.v >= 0 THEN side * Pow2(z.v) <= 256 * c.resZoom0
       ELSE side <= 256 * c.resZoom0 * Pow2(-z.v)

\* side * crs.scale(z + 1) > 256
NextZoomExceedsOneTile(c, side, z) ==
    /\ IsFinite(z)
    /\ IF z.v + 1 >= 0 THEN side * Pow2(z.v + 1) > 256 * c.resZoom0
       ELSE side > 256 * c.resZoom0 * Pow2(-(z.v + 1))

\* the controller has just applied an update of a dynamic-mode map
DynamicUpdated ==
    ~Static /\ pc = "built" /\ last.op \in {"construct"} \cup LayerEvents

Complete(ob) ==
    /\ IsSome(ob) /\ IsSome(The(ob).min) /\ IsSome(The(ob).max)
    /\ \A pt \in {The(The(ob).min), The(The(ob).max)} : IsSome(pt.x) /\ IsSome(pt.y)

\* the box a complete record describes, coordinate by coordinate
BoundsOfBox(ob) ==
    LET mn == The(The(ob).min)
        mx == The(The(ob).max)
    IN [min |-> Pt(Min2(The(mn.x), The(mx.x)), Min2(The(mn.y), The(mx.y))),
        max |-> Pt(Max2(The(mn.x), The(mx.x)), Max2(The(mn.y), The(mx.y)))]

\* the record of an item for the map CRS
ItemBox(i) == FindBox(boundingBoxes(i, crs.code), crs.code)

\* the boxes that count: complete records of shown items whose CRS is the map
\* CRS, and of the previewed item
Contributors ==
    {BoundsOfBox(ItemBox(i)) :
        i \in {j \in Items : show[j] /\ itemCrs(j, crs.code) = crs.code
                                /\ Complete(ItemBox(j))}}
    \cup (IF IsSome(previewed) /\ Complete(ItemBox(The(previewed)))
          THEN {BoundsOfBox(ItemBox(The(previewed)))} ELSE {})

\* C12: a bounding-box record lacking min, max or any coordinate parses to
\* absent and adds nothing to the item bounds; a complete record parses to its
\* box, a coordinate 0 kept as 0.  The item bounds are absent when no box
\* counts, and otherwise the smallest box holding the boxes of every shown
\* item whose CRS is the map CRS and of the previewed item.
C12_IncompleteBoundsAbsent ==
    /\ last.op = "parseBounds" =>
          last.res.bounds = (IF Complete(last.res.box)
                             THEN Some(BoundsOfBox(last.res.box)) ELSE None)
    /\ last.op = "itemBounds" =>
          IF Contributors = {} THEN last.res.bounds = None
          ELSE /\ IsSome(last.res.bounds)
               /\ LET agg == The(last.res.bounds)
                  IN /\ \A b \in Contributors :
                           /\ agg.min.x <= b.min.x /\ b.max.x <= agg.max.x
                           /\ agg.min.y <= b.min.y /\ b.max.y <= agg.max.y
                     /\ \E b \in Contributors : agg.min.x = b.min.x
                     /\ \E b \in Contributors : agg.min.y = b.min.y
                     /\ \E b \in Contributors : agg.max.x = b.max.x
                     /\ \E b \in Contributors : agg.max.y = b.max.y

\* C12 witness: the previewed item's record lacks a coordinate and a shown
\* item is served in another CRS; the item bounds are the remaining item's box
C12_Witness ==
    /\ last.op = "itemBounds" /\ previewed = Some("q")
    /\ show["a"] /\ show["c"] /\ itemCrs("c", crs.code) /= crs.code
    /\ last.res.bounds = Some(LBounds(Pt(0, 0), Pt(131072, 65536)))


\* C19: buildProjCrs yields none for every code the host handles natively,
\* whatever proj4Definition, projectedBounds and resolutions come with it.
C19_NativeCodeYieldsNone ==
    (last.op = "buildProjCrs" /\ last.res.code \in standardTerriaCrs) =>
        last.res.projCrs = None

\* C19 witness: a native code with a full set of usable options yields none
C19_Witness ==
    /\ last.op = "buildProjCrs" /\ last.res.code = "EPSG:4326"
    /\ IsSome(last.res.options)
    /\ The(last.res.options).proj4Definition = Some("ok")
    /\ Complete(The(last.res.options).projectedBounds)
    /\ IsSome(The(last.res.options).resolutions)
    /\ last.res.projCrs = None


(***************************************************************************)
(* Claims about the plugin (checked under SpecPlugin).                     *)
(***************************************************************************)
\* the loader calls made so far
Calls == 1..Len(plugin.calls)

\* C15: until the lazy module has loaded, the tiling-scheme generator returns
\* none for every code; at any time it returns none for an absent code, a
\* code the host handles natively and a code that is not an available CRS
\* proj4 knows.
C15_GeneratorNoneUntilLoaded ==
    last.op = "tilingScheme" =>
        /\ plugin.module /= "fulfilled" => last.res.scheme = None
        /\ (\/ last.res.code = None
            \/ The(last.res.code) \in standardTerriaCrs
            \/ The(last.res.code) \notin availableCrs \cup {"EPSG:3857"}
            \/ The(last.res.code) \notin KnownCrs) => last.res.scheme = None

\* C15 witness: a tiling scheme asked for an available custom CRS while the
\* import is pending
C15_Witness ==
    /\ last.op = "tilingScheme" /\ last.res.code = Some("EPSG:3031")
    /\ plugin.module = "pending"
    /\ last.res.scheme = None

\* C16: a loader call on the default path (the plugin disabled, or the map
\* CRS handled natively) never stands waiting for the lazy module to load.
C16_DefaultPathNeverWaits ==
    \A k \in Calls :
        (plugin.calls[k].st = "waiting" /\ plugin.module /= "fulfilled") =>
            ~(IsSome(plugin.calls[k].mapCrs)
              /\ isCrsHandledByTerria(The(plugin.calls[k].mapCrs)))

\* C17: when the import of the lazy module has failed no loader call rejects,
\* and the tiling-scheme generator returns none.
C17_ModuleFailureFallsBack ==
    plugin.module = "rejected" =>
        /\ \A k \in Calls : plugin.calls[k].st /= "rejected"
        /\ last.op = "tilingScheme" => last.res.scheme = None

\* what the loader resolves with for a map CRS: the custom viewer on the CRS
\* built for it, or the host's default viewer
ViewerFor(mapCrs) ==
    IF IsSome(mapCrs) /\ The(mapCrs) \notin standardTerriaCrs
       /\ ~ProjConstructionFails(The(mapCrs),
                                 IF IsSome(FindDefinition(The(mapCrs)))
                                 THEN The(FindDefinition(The(mapCrs))).proj4Definition
                                 ELSE None)
    THEN "custom" ELSE "default"

BuildFails(code) ==
    /\ code \notin standardTerriaCrs
    /\ ProjConstructionFails(code, IF IsSome(FindDefinition(code))
                                   THEN The(FindDefinition(code)).proj4Definition
                                   ELSE None)

\* C20: for a custom code whose CRS cannot be constructed (a code proj4 does
\* not know and no definition, or a malformed definition) nothing is thrown:
\* the tiling-scheme generator returns none and the loader resolves with the
\* host's default viewer; a loader call rejects only if the import failed.
C20_BuildFailureFallsBack ==
    /\ (last.op = "tilingScheme" /\ IsSome(last.res.code)
          /\ BuildFails(The(last.res.code))) => last.res.scheme = None
    /\ \A k \in Calls :
          /\ (plugin.calls[k].st = "done" /\ IsSome(plugin.calls[k].mapCrs)
                /\ BuildFails(The(plugin.calls[k].mapCrs))) =>
                (plugin.calls[k].result = "default" /\ plugin.calls[k].projCrs = None)
          /\ plugin.calls[k].st = "rejected" => plugin.module = "rejected"

\* C20 witness: the module loaded, the main viewer's loader has completed on a
\* selected CRS with a malformed definition, a preview viewer's on a code
\* proj4 does not know
C20_Witness ==
    /\ plugin.module = "fulfilled" /\ Len(plugin.calls) = 2
    /\ plugin.calls[1].st = "done" /\ plugin.calls[1].mapCrs = Some("EPSG:32633")
    /\ plugin.calls[1].result = "default"
    /\ plugin.calls[2].st = "done" /\ plugin.calls[2].mapCrs = Some("EPSG:9999")
    /\ plugin.calls[2].result = "default"


(***************************************************************************)
(* Claims about scale, zoom and tiles (checked under SpecTiling).          *)
(***************************************************************************)

\* C21: for a ProjectedCrs built without resolutions, with bounds or without,
\* scale and zoom are inverse to each other: the zoom of the scale of a zoom
\* is that zoom, and the scale of the zoom of a positive scale is that scale.
C21_ScaleZoomInverse ==
    ~IsSome(crs.resolutions) =>
        /\ last.op = "zoomOfScale" => last.res.back = Some(last.res.zoom)
        /\ last.op = "scaleOfZoom" => last.res.back = Some(last.res.scale)

C21_Witness ==
    /\ ~IsSome(crs.resolutions) /\ IsSome(crs.bounds) /\ crs.resZoom0 = 32768
    /\ last.op = "scaleOfZoom" /\ last.res.scale = Whole(3)
    /\ last.res.zoom = Some([exp2 |-> Whole(98304)])
    /\ last.res.back = Some(Whole(3))

\* C22: for a ProjectedCrs built without resolutions, scale(z) is 2^z / res0
\* with res0 the larger side of the native bounds over 256, or 256 when there
\* are no bounds; so the scale doubles from one zoom to the next, and for the
\* bounds (-4194304, -4194304)..(4194304, 4194304) the scale at zoom 0 is
\* 1 / 32768.
C22_ScalePowerOfTwo ==
    (last.op = "zoomOfScale" /\ ~IsSome(crs.resolutions)) =>
        LET z == last.res.zoom
            res0 == IF IsSome(crs.bounds)
                    THEN Rat(LargerSide(The(crs.bounds)), 256)
                    ELSE Whole(256)
        IN /\ last.res.scale = Some(RatDiv(z.exp2, res0))
           /\ crsScale(crs, [exp2 |-> RatMul(Whole(2), z.exp2)])
                  = Some(RatMul(Whole(2), The(last.res.scale)))
           /\ (/\ crs.bounds = Some(LBounds(Pt(-4194304, -4194304), Pt(4194304, 4194304)))
               /\ z = Level(0))
                  => last.res.scale = Some(Rat(1, 32768))

C22_Witness ==
    /\ last.op = "zoomOfScale" /\ ~IsSome(crs.resolutions)
    /\ crs.bounds = Some(LBounds(Pt(-4194304, -4194304), Pt(4194304, 4194304)))
    /\ last.res.zoom = Level(3)
    /\ last.res.scale = Some(Rat(1, 4096))

\* C23: a ProjectedCrs built with a resolutions array keeps the array as
\* given, and its scale at each whole level z of the array is
\* 1 / resolutions[z] (levels count from 0), not the power-of-two scale
\* 2^z / res0 that is installed when no array is given.
C23_ResolutionsVerbatim ==
    (last.op = "zoomOfScale" /\ IsSome(crs.resolutions)) =>
        LET z == LevelOf(last.res.zoom)
            resolutions == The(crs.resolutions)
        IN /\ \E d \in TilingDefinitions : d.resolutions = Some(resolutions)
           /\ z + 1 \in DOMAIN resolutions
                  => last.res.scale = Some(Rat(1, resolutions[z + 1]))

C23_Witness ==
    /\ last.op = "zoomOfScale" /\ crs.resolutions = Some(<<30, 10, 5>>)
    /\ last.res.zoom = Level(1)
    /\ last.res.scale = Some(Rat(1, 10))
    /\ last.res.scale /= Some(RatDiv(Level(1).exp2, Whole(crs.resZoom0)))

\* C24: the tile count at a level is the size of the native bounds in pixels
\* at that level over the tile size (256 x 256), in each component: for the
\* square bounds (-4194304, -4194304)..(4194304, 4194304) without resolutions
\* it is (1, 1) at level 0; without resolutions it doubles in each component
\* from a level to the next; without known bounds it is (infinity, infinity)
\* at every level.
C24_TileCount ==
    last.op = "tileCountAtLevel" =>
        LET level == last.res.level
            count == last.res.count
            s == crsScale(crs, Level(level))
            size == GetSize(The(crs.bounds))
        IN /\ ~IsSome(crs.bounds) => count = Pt(Inf, Inf)
           /\ (IsSome(crs.bounds) /\ IsSome(s)) =>
                  count = Pt(RatDiv(RatMul(Whole(size.x), The(s)), Whole(256)),
                             RatDiv(RatMul(Whole(size.y), The(s)), Whole(256)))
           /\ (IsSome(crs.bounds) /\ ~IsSome(crs.resolutions)) =>
                  LET next == getNumberOfTilesAtLevel(Scheme, level + 1)
                  IN /\ next.x = RatMul(Whole(2), count.x)
                     /\ next.y = RatMul(Whole(2), count.y)
           /\ (/\ crs.bounds = Some(LBounds(Pt(-4194304, -4194304), Pt(4194304, 4194304)))
               /\ ~IsSome(crs.resolutions) /\ level = 0)
                  => count = Pt(Whole(1), Whole(1))

C24_Witness ==
    /\ last.op = "tileCountAtLevel" /\ ~IsSome(crs.resolutions)
    /\ crs.bounds = Some(LBounds(Pt(-4096, -2048), Pt(4096, 2048)))
    /\ last.res.level = 2
    /\ last.res.count = Pt(Whole(4), Whole(2))

\* a number of eight decimals is the fraction rounded to 8 decimals: it
\* differs from it by at most half a unit of the eighth decimal, a half
\* being rounded up (the difference is taken four decimals at a time)
RoundedTo8(exact, result) ==
    LET r == exact.n - result.int * exact.d
        r1 == r * Pow10(4) - (result.e8 \div Pow10(4)) * exact.d
        delta == r1 * Pow10(4) - (result.e8 % Pow10(4)) * exact.d
    IN -exact.d <= 2 * delta /\ 2 * delta < exact.d

\* C29: where the CRS has bounds and a scale at the level, a native tile
\* rectangle has west <= east and south <= north; tile (0, 0) has its west
\* and north at the origin (bounds.min.x, bounds.max.y); the east of tile x
\* is the west of tile x + 1 and the south of tile y is the north of tile
\* y + 1; and each coordinate is the exact edge of the tile, origin plus or
\* minus tiles times tile size over the scale, rounded to 8 decimals.
C29_NativeRectangles ==
    (/\ last.op = "nativeRectangleForTile" /\ IsSome(crs.bounds)
     /\ IsSome(crsScale(crs, Level(last.res.level)))) =>
        LET x == last.res.x
            y == last.res.y
            level == last.res.level
            r == last.res.rectangle
            b == The(crs.bounds)
            perTile == RatDiv(Whole(256), The(crsScale(crs, Level(level))))
            Edge(from, sign, k) == RatAdd(Whole(from), RatMul(Whole(sign * k), perTile))
        IN /\ Dec8Leq(r.west, r.east) /\ Dec8Leq(r.south, r.north)
           /\ (x = 0 /\ y = 0) =>
                  /\ r.west = [int |-> b.min.x, e8 |-> 0]
                  /\ r.north = [int |-> b.max.y, e8 |-> 0]
           /\ r.east = tileXYToNativeRectangle(Scheme, x + 1, y, level).west
           /\ r.south = tileXYToNativeRectangle(Scheme, x, y + 1, level).north
           /\ RoundedTo8(Edge(b.min.x, 1, x), r.west)
           /\ RoundedTo8(Edge(b.min.x, 1, x + 1), r.east)
           /\ RoundedTo8(Edge(b.max.y, -1, y), r.north)
           /\ RoundedTo8(Edge(b.max.y, -1, y + 1), r.south)

C29_Witness ==
    /\ last.op = "nativeRectangleForTile"
    /\ crs.bounds = Some(LBounds(Pt(-384, -384), Pt(384, 384)))
    /\ last.res.level = 17 /\ last.res.x = 1 /\ last.res.y = 0
    /\ last.res.rectangle.west = [int |-> -384, e8 |-> 585938]
    /\ last.res.rectangle.east = [int |-> -384, e8 |-> 1171875]
    /\ last.res.rectangle.north = [int |-> 384, e8 |-> 0]
    /\ last.res.rectangle.south = [int |-> 383, e8 |-> 99414063]

\* C25: the centre of the geographic rectangle of a tile (x, y, level),
\* handed to positionToTileXY at that level, gives (x, y) back.
C25_CenterRoundTrip ==
    last.op = "tileOfCenter" => last.res.tile = Pt(last.res.x, last.res.y)

(***************************************************************************)
(* Claims about the plugin and the catalog (checked under SpecCatalog).    *)
(***************************************************************************)

\* the models of the catalog that have CRS traits
CrsModelsPresent == {m.id : m \in {n \in plugin.models : isCrsModel(n)}}

\* C26: while the plugin is disabled no CRS model has the override stratum;
\* while it is enabled every CRS model of the catalog has it, set once,
\* however often the models of the catalog change.
C26_StratumFollowsEnabled ==
    /\ ~plugin.enabled => \A id \in CrsModelIds : stratumName \notin plugin.strata[id]
    /\ plugin.enabled =>
           \A id \in CrsModelsPresent :
               stratumName \in plugin.strata[id] /\ plugin.nSet[id] = 1

\* the CRS of the active base map if that is a CRS model, else of the loading
\* base map if that is a CRS model
ActiveElseLoading ==
    LET active == plugin.baseMap
        loading == plugin.loadingBaseMap
    IN IF active /= None /\ The(active).crsTraits THEN The(active).crs
       ELSE IF loading /= None /\ The(loading).crsTraits THEN The(loading).crs
       ELSE None

\* a code of the availableCrs list that the registry knows
Usable(code) == code \in availableCrs /\ code \in KnownCrs

\* C27: currentCrs is a code that is in the available-CRS list and known to
\* the registry, or "EPSG:3857".  With the sentinel selected it is the CRS of
\* the active, else the loading, base map when that is such a code; with a
\* selection that is absent, unknown or unavailable it is "EPSG:3857".
C27_CurrentCrsUsable ==
    LET current == currentCrs(plugin)
        sel == plugin.selectedCrs
    IN /\ Usable(current) \/ current = "EPSG:3857"
       /\ (sel = Some(BASEMAP_CRS) /\ ActiveElseLoading /= None
           /\ Usable(The(ActiveElseLoading)))
              => current = The(ActiveElseLoading)
       /\ (sel = Some(BASEMAP_CRS)
           /\ (ActiveElseLoading = None \/ ~Usable(The(ActiveElseLoading))))
              => current = "EPSG:3857"
       /\ (sel = None \/ (sel /= Some(BASEMAP_CRS) /\ ~Usable(The(sel))))
              => current = "EPSG:3857"
       /\ (sel /= None /\ sel /= Some(BASEMAP_CRS) /\ Usable(The(sel)))
              => current = The(sel)

C27_Witness ==
    /\ plugin.selectedCrs = Some(BASEMAP_CRS)
    /\ plugin.baseMap = Some(Model("plain", FALSE, Some("EPSG:3031")))
    /\ plugin.loadingBaseMap = Some(Model("polar", TRUE, Some("EPSG:3031")))
    /\ currentCrs(plugin) = "EPSG:3031"

(***************************************************************************)
(* Claims about the limits of the min zoom and the controller's lifetime   *)
(* (checked under Spec)                                                    *)
(***************************************************************************)

\* C28: after every update of a dynamic controller, whatever the aggregated
\* item bounds (a point-sized aggregate included), the min zoom applied to the
\* map and to every tile layer on it is a finite integer.
C28_MinZoomFinite ==
    DynamicUpdated =>
        /\ map.minZoom.k = "fin"
        /\ \A l \in LayerIds :
              map.layers[l].st = "on" => map.layers[l].minZoom.k = "fin"

\* the applied max bounds and min zoom, and the calls that applied them
Applied(m) ==
    [maxBounds |-> m.maxBounds, minZoom |-> m.minZoom,
     nSetMaxBounds |-> m.nSetMaxBounds, nSetMinZoom |-> m.nSetMinZoom,
     layers |-> [l \in LayerIds |-> m.layers[l].minZoom]]

\* C30 (checked under SpecLifetime): a destroyed controller has no layeradd
\* or layerremove handler registered, and no layer event that comes after its
\* destruction or before the map is ready changes the max bounds or the min
\* zoom of the map, or the min zoom of a layer that stays.
C30_NoUpdateOutsideLifetime ==
    [][/\ pc' = "destroyed" => handlers' \cap LayerEvents = {}
       /\ (pc \in {"waiting", "destroyed"} /\ last'.op \in LayerEvents) =>
             /\ Applied(map').maxBounds = Applied(map).maxBounds
             /\ Applied(map').minZoom = Applied(map).minZoom
             /\ Applied(map').nSetMaxBounds = Applied(map).nSetMaxBounds
             /\ Applied(map').nSetMinZoom = Applied(map).nSetMinZoom
             /\ \A l \in LayerIds :
                   map'.layers[l].st = "on" /\ map.layers[l].st = "on" =>
                       Applied(map').layers[l] = Applied(map).layers[l]]_vars

\* C30 witness: a dynamic controller, updated by a layer event while it lived,
\* then destroyed; a layer is removed afterwards while the bounds of the items
\* shown are no longer the ones applied
C30_Witness ==
    /\ ~Static /\ pc = "destroyed"
    /\ last.op = "layerremove"
    /\ map.nSetMaxBounds = 2
    /\ map.maxBounds # toLatLngBounds(itemBounds(crs, previewed, show), crs)

=============================================================================
